---- MODULE Spec2Model ----
(***************************************************************************)
(* Model of the daily reconciliation pipeline:                             *)
(*   src/src/data_cleaning/clean_data.py          (canonicalization)       *)
(*   src/src/data_reconciliation/reconcile_data_sql.py (four-way join,     *)
(*                                      type stabilization, export)        *)
(*                                                                         *)
(* A cell of a dataframe / SQL table is a record [null, v]: null = TRUE is *)
(* NaN / None / NaT / SQL NULL, otherwise v is the value.  Text is a       *)
(* sequence of one-character strings, an amount is an integer number of    *)
(* hundredths, an instant is a                                             *)
(* number of seconds since 1970-01-01T00:00:00Z.                           *)
(***************************************************************************)
EXTENDS Integers, Sequences, FiniteSets, TLC

VARIABLES
    pc,                     \* position of the program in the run being modelled
    grab_transactions,      \* cleaned source dataframe handed to sqldf
    partner_transactions,   \* cleaned counterpart dataframe handed to sqldf
    reconciliation_results, \* the dict of the four result dataframes
    text_value,             \* parse_datetime: the argument
    fmt_index,              \* parse_datetime: index of the format tried next
    tried,                  \* parse_datetime: the formats tried so far, in order
    parse_result,           \* parse_datetime: the value returned
    raw_files,              \* the three generated CSV files of the period
    cleaned_csv,            \* the cleaned CSV files written by clean_data_for_date
    saved,                  \* the entities whose cleaned CSV file was written
    converted_results,      \* df_converted of each of the four partitions
    datetime_columns,       \* the columns of df_converted whose dtype is datetime64
    generated,              \* file system: generated_data/<period>/<entity>_<period>.csv
    cleaned_files,          \* file system: cleaned_data/<period>/cleaned_<entity>_<period>.csv
    export_files,           \* file system: power_bi_data/<period>/<table>_<period>.csv
    db,                     \* the PostgreSQL tables
    target_date_str,        \* the argument of the run in progress
    pos,                    \* index of the loop the run is in
    attempted,              \* partitions whose export the run has started
    run_failed,             \* an input could not be loaded / an output not written
    return_value,           \* how the run came back to its caller
    runs,                   \* number of runs started
    failures,               \* number of faults of the file system and the database so far
    now,                    \* run_automation.py: the date and the time of day of the clock
    success_flag,           \* run_automation.py: success, the flag of the loop over the scripts
    script_index,           \* position of the loop in config["scripts"]
    started,                \* scripts that subprocess.Popen started in the current run
    finished,               \* the processes of the current run that ended, with their return code
    notified,               \* scripts for which send_failure_email was called in the current run
    run_dates,              \* the dates on which a daily run started
    days_elapsed            \* midnights passed since the scheduler started

reconVars == <<grab_transactions, partner_transactions, reconciliation_results>>
parseVars == <<text_value, fmt_index, tried, parse_result>>
cleanVars == <<raw_files, cleaned_csv, saved, converted_results, datetime_columns>>
ioVars == <<generated, cleaned_files, export_files, db, target_date_str, pos,
           attempted, run_failed, return_value, runs, failures>>
autoVars == <<now, success_flag, script_index, started, finished, notified, run_dates, days_elapsed>>
vars == <<pc, reconVars, parseVars, cleanVars, ioVars, autoVars>>

\* run_automation.py is not running.
AutoIdle ==
    /\ now = [year |-> 2024, month |-> 5, day |-> 18, clock |-> "before"]
    /\ success_flag = TRUE
    /\ script_index = 0
    /\ started = <<>>
    /\ finished = <<>>
    /\ notified = {}
    /\ run_dates = <<>>
    /\ days_elapsed = 0

-----------------------------------------------------------------------------
(* Cells *)

NullNum == [null |-> TRUE, v |-> 0]
Num(n) == [null |-> FALSE, v |-> n]
NullStr == [null |-> TRUE, v |-> <<>>]
Str(s) == [null |-> FALSE, v |-> s]

\* SQL three-valued comparison, as used in ON and WHERE: the result of
\* a = b (a <> b) is "T", "F" or "U" (unknown) when an operand is NULL.
SqlEq_null_equals_null(a, b) ==
    IF a.null /\ b.null THEN "T" ELSE IF a.null \/ b.null THEN "U"
    ELSE IF a.v = b.v THEN "T" ELSE "F"
SqlEq(a, b) == IF a.null \/ b.null THEN "U" ELSE IF a.v = b.v THEN "T" ELSE "F"
SqlNe(a, b) == IF a.null \/ b.null THEN "U" ELSE IF a.v # b.v THEN "T" ELSE "F"
SqlAnd(x, y) == IF x = "F" \/ y = "F" THEN "F" ELSE IF x = "T" /\ y = "T" THEN "T" ELSE "U"
SqlOr(x, y) == IF x = "T" \/ y = "T" THEN "T" ELSE IF x = "F" /\ y = "F" THEN "F" ELSE "U"

-----------------------------------------------------------------------------
(* The four queries of reconcile_and_export_data_for_date, evaluated the   *)
(* way sqldf evaluates them: a nested loop over the two tables.  SQL gives *)
(* no row order without ORDER BY; the properties below never use it.       *)

\* Variant of the ON condition that compares the transaction id only.
join_condition_tid_only(gt, pt) ==
    SqlEq(gt.transaction_id, pt.grab_transaction_id)

\* ON gt.transaction_id = pt.grab_transaction_id
\*    AND gt.grab_account_id = pt.grab_account_id
join_condition(gt, pt) ==
    SqlAnd(SqlEq(gt.transaction_id, pt.grab_transaction_id),
           SqlEq(gt.grab_account_id, pt.grab_account_id))

\* The SELECT list of match_query.
match_select(gt, pt) ==
    [grab_transaction_id |-> gt.transaction_id,
     grab_account_id |-> gt.grab_account_id,
     grab_amount |-> gt.amount,
     grab_currency_code |-> gt.currency_code,
     grab_status |-> gt.status,
     grab_created_at |-> gt.created_at,
     grab_updated_at |-> gt.updated_at,
     grab_transaction_datetime |-> gt.transaction_datetime,
     partner_grab_transaction_id |-> pt.grab_transaction_id,
     partner_grab_account_id |-> pt.grab_account_id,
     partner_amount |-> pt.amount,
     partner_currency_code |-> pt.currency_code,
     partner_status |-> pt.status,
     partner_created_at |-> pt.created_at,
     partner_updated_at |-> pt.updated_at,
     partner_transaction_datetime |-> pt.transaction_datetime]

\* The SELECT list of discrepancy_query.
discrepancy_select(gt, pt) ==
    [transaction_id |-> gt.transaction_id,
     grab_account_id |-> gt.grab_account_id,
     grab_amount |-> gt.amount,
     partner_amount |-> pt.amount,
     grab_currency_code |-> gt.currency_code,
     partner_currency_code |-> pt.currency_code,
     grab_status |-> gt.status,
     partner_status |-> pt.status,
     grab_created_at |-> gt.created_at,
     partner_created_at |-> pt.created_at,
     grab_updated_at |-> gt.updated_at,
     partner_updated_at |-> pt.updated_at,
     grab_transaction_datetime |-> gt.transaction_datetime,
     partner_transaction_datetime |-> pt.transaction_datetime]

\* WHERE gt.amount <> pt.amount OR gt.status <> pt.status
\*       OR gt.currency_code <> pt.currency_code
discrepancy_where(gt, pt) ==
    SqlOr(SqlOr(SqlNe(gt.amount, pt.amount), SqlNe(gt.status, pt.status)),
          SqlNe(gt.currency_code, pt.currency_code))

\* Rows of an INNER JOIN: for each left row, the right rows whose ON
\* condition is true, in table order.
RECURSIVE InnerOfRow(_, _, _)
InnerOfRow(l, right, j) ==
    IF j > Len(right) THEN <<>>
    ELSE (IF join_condition(l, right[j]) = "T" THEN <<right[j]>> ELSE <<>>)
         \o InnerOfRow(l, right, j + 1)

RECURSIVE match_rows(_, _, _)
match_rows(gts, pts, i) ==
    IF i > Len(gts) THEN <<>>
    ELSE LET ms == InnerOfRow(gts[i], pts, 1)
         IN [k \in 1..Len(ms) |-> match_select(gts[i], ms[k])]
            \o match_rows(gts, pts, i + 1)

match_query(gts, pts) == match_rows(gts, pts, 1)

RECURSIVE discrepancy_rows(_, _, _)
discrepancy_rows(gts, pts, i) ==
    IF i > Len(gts) THEN <<>>
    ELSE LET ms == InnerOfRow(gts[i], pts, 1)
             ws == SelectSeq(ms, LAMBDA pt : discrepancy_where(gts[i], pt) = "T")
         IN [k \in 1..Len(ws) |-> discrepancy_select(gts[i], ws[k])]
            \o discrepancy_rows(gts, pts, i + 1)

discrepancy_query(gts, pts) == discrepancy_rows(gts, pts, 1)

\* Variant of grab_only_query whose LEFT JOIN compares the transaction id only.
grab_only_keeps_tid_only(gt, pts) ==
    LET ms == SelectSeq(pts, LAMBDA pt :
                  SqlEq(gt.transaction_id, pt.grab_transaction_id) = "T")
    IN IF Len(ms) = 0 THEN 1
       ELSE Len(SelectSeq(ms, LAMBDA pt : pt.grab_transaction_id.null))

\* grab_only_query: gt LEFT JOIN pt ... WHERE pt.grab_transaction_id IS NULL.
\* A left row without a partner gets one all-NULL right side; a left row
\* with partners gets their grab_transaction_id, which the WHERE tests.
grab_only_keeps(gt, pts) ==
    LET ms == InnerOfRow(gt, pts, 1)
    IN IF Len(ms) = 0 THEN 1
       ELSE Len(SelectSeq(ms, LAMBDA pt : pt.grab_transaction_id.null))

RECURSIVE Repeat(_, _)
Repeat(x, n) == IF n = 0 THEN <<>> ELSE <<x>> \o Repeat(x, n - 1)

RECURSIVE grab_only_rows(_, _, _)
grab_only_rows(gts, pts, i) ==
    IF i > Len(gts) THEN <<>>
    ELSE Repeat(gts[i], grab_only_keeps(gts[i], pts))
         \o grab_only_rows(gts, pts, i + 1)

grab_only_query(gts, pts) == grab_only_rows(gts, pts, 1)

\* partner_only_query: pt LEFT JOIN gt ... WHERE gt.transaction_id IS NULL.
RECURSIVE PartnersOfRow(_, _, _)
PartnersOfRow(pt, gts, i) ==
    IF i > Len(gts) THEN <<>>
    ELSE (IF join_condition(gts[i], pt) = "T" THEN <<gts[i]>> ELSE <<>>)
         \o PartnersOfRow(pt, gts, i + 1)

partner_only_keeps(pt, gts) ==
    LET ms == PartnersOfRow(pt, gts, 1)
    IN IF Len(ms) = 0 THEN 1
       ELSE Len(SelectSeq(ms, LAMBDA gt : gt.transaction_id.null))

RECURSIVE partner_only_rows(_, _, _)
partner_only_rows(pts, gts, j) ==
    IF j > Len(pts) THEN <<>>
    ELSE Repeat(pts[j], partner_only_keeps(pts[j], gts))
         \o partner_only_rows(pts, gts, j + 1)

partner_only_query(gts, pts) == partner_only_rows(pts, gts, 1)

\* reconciliation_results = { ... sqldf(...) ... }  (lines 302-307)
sqldf_results(gts, pts) ==
    [reconciled_transactions |-> match_query(gts, pts),
     grab_only_transactions |-> grab_only_query(gts, pts),
     partner_only_transactions |-> partner_only_query(gts, pts),
     discrepant_transactions |-> discrepancy_query(gts, pts)]

NoResults ==
    [reconciled_transactions |-> <<>>, grab_only_transactions |-> <<>>,
     partner_only_transactions |-> <<>>, discrepant_transactions |-> <<>>]

NoDatetimeColumns ==
    [reconciled_transactions |-> {}, grab_only_transactions |-> {},
     partner_only_transactions |-> {}, discrepant_transactions |-> {}]

NoFiles == [accounts |-> <<>>, grab_transactions |-> <<>>, partner_transactions |-> <<>>]

CleanIdle ==
    /\ raw_files = NoFiles
    /\ cleaned_csv = NoFiles
    /\ saved = {}
    /\ converted_results = NoResults
    /\ datetime_columns = NoDatetimeColumns

-----------------------------------------------------------------------------
(* Files and tables.  A name is a tuple of its parts, so that               *)
(* f"{prefix}{name}_{date}" is <<prefix, name, date>>.                      *)

Periods == {"20240516", "20240517"}

\* reconcile_data_sql.py:17, evaluated when the module is loaded.
TARGET_DATE_STR == "20240517"

Entities == {"accounts", "grab_transactions", "partner_transactions"}
EntityOrder == <<"accounts", "grab_transactions", "partner_transactions">>

\* The keys of reconciliation_results, in insertion order (lines 302-307).
PartitionOrder ==
    <<"reconciled_transactions", "grab_only_transactions",
      "partner_only_transactions", "discrepant_transactions">>
Partitions == {PartitionOrder[k] : k \in DOMAIN PartitionOrder}

\* Lines 322-327: "transactions" for the matched rows, otherwise the part of
\* the key before its first underscore.
table_name_base ==
    [reconciled_transactions |-> "transactions", grab_only_transactions |-> "grab",
     partner_only_transactions |-> "partner", discrepant_transactions |-> "discrepant"]
TableBases == {table_name_base[part] : part \in Partitions}

staging_table(entity) == <<"staging_", entity, "">>
cleaned_table(entity, period) == <<"cleaned_", entity, period>>
reconciled_table(part) == <<"reconciled_", table_name_base[part], TARGET_DATE_STR>>

TableNames ==
    {staging_table(e) : e \in Entities}
    \cup {cleaned_table(e, d) : e \in Entities, d \in Periods}
    \cup {<<"reconciled_", b, d>> : b \in TableBases, d \in Periods}

\* power_bi_data/<directory>/reconciled_<base>_<date>.csv
ExportNames == Periods \X TableBases \X Periods
export_file(directory, part) == <<directory, table_name_base[part], TARGET_DATE_STR>>

Absent == [exists |-> FALSE, rows |-> <<>>]
Holding(rows) == [exists |-> TRUE, rows |-> rows]

IoIdle ==
    /\ generated = [d \in Periods |-> [e \in Entities |-> Absent]]
    /\ cleaned_files = [d \in Periods |-> [e \in Entities |-> Absent]]
    /\ export_files = [n \in ExportNames |-> Absent]
    /\ db = [n \in TableNames |-> Absent]
    /\ target_date_str = TARGET_DATE_STR
    /\ pos = 0
    /\ attempted = {}
    /\ run_failed = FALSE
    /\ return_value = "pending"
    /\ runs = 0
    /\ failures = 0

-----------------------------------------------------------------------------
(* parse_datetime (clean_data.py:72-88).  A string is a sequence of        *)
(* one-character strings; a format is a sequence of directives ("%Y", ...) *)
(* and literal characters.                                                 *)

Digits == <<"0", "1", "2", "3", "4", "5", "6", "7", "8", "9">>
IsDigit(c) == \E q \in 1..10 : Digits[q] = c
DigitVal(c) == (CHOOSE q \in 1..10 : Digits[q] = c) - 1

RECURSIVE NumOf(_, _, _)
NumOf(s, i, n) ==
    IF n = 0 THEN 0 ELSE NumOf(s, i, n - 1) * 10 + DigitVal(s[i + n - 1])

AllDigits(s, i, n) == i + n - 1 <= Len(s) /\ \A q \in i..(i + n - 1) : IsDigit(s[q])

FieldRange ==
    [m |-> <<1, 12>>, d |-> <<1, 31>>, H |-> <<0, 23>>, I |-> <<1, 12>>,
     M |-> <<0, 59>>, S |-> <<0, 61>>]
FieldOf(directive) ==
    CASE directive = "%m" -> "m" [] directive = "%d" -> "d"
      [] directive = "%H" -> "H" [] directive = "%I" -> "I"
      [] directive = "%M" -> "M" [] directive = "%S" -> "S"
TwoDigitDirectives == {"%m", "%d", "%H", "%I", "%M", "%S"}

\* A numeric field of n digits at position i, within the directive's range
\* (the regular expressions of strptime: "1[0-2]|0[1-9]|[1-9]" and so on).
CanTake(directive, s, i, n) ==
    /\ AllDigits(s, i, n)
    /\ NumOf(s, i, n) >= FieldRange[FieldOf(directive)][1]
    /\ NumOf(s, i, n) <= FieldRange[FieldOf(directive)][2]

NoMatch == [ok |-> FALSE, Y |-> 0, m |-> 0, d |-> 0, H |-> 0, I |-> 0,
            M |-> 0, S |-> 0, pm |-> FALSE, z |-> 0]
EmptyMatch == [NoMatch EXCEPT !.ok = TRUE]

RECURSIVE SkipSpaces(_, _)
SkipSpaces(s, i) == IF i <= Len(s) /\ s[i] = " " THEN SkipSpaces(s, i + 1) ELSE i

\* %z: "Z", "+hh:mm", "-hh:mm", "+hhmm" or "-hhmm"; the value is the offset
\* from UTC in seconds and the number of characters consumed.
ZoneAt(s, i) ==
    IF i <= Len(s) /\ s[i] = "Z" THEN [ok |-> TRUE, z |-> 0, n |-> 1]
    ELSE IF i <= Len(s) /\ s[i] \in {"+", "-"} /\ AllDigits(s, i + 1, 2)
         THEN LET sign == IF s[i] = "-" THEN -1 ELSE 1
                  hh == NumOf(s, i + 1, 2)
                  colon == i + 3 <= Len(s) /\ s[i + 3] = ":"
                  mi == IF colon THEN i + 4 ELSE i + 3
              IN IF AllDigits(s, mi, 2) /\ NumOf(s, mi, 2) <= 59
                 THEN [ok |-> TRUE, z |-> sign * (hh * 3600 + NumOf(s, mi, 2) * 60),
                       n |-> (mi + 2) - i]
                 ELSE [ok |-> FALSE, z |-> 0, n |-> 0]
         ELSE [ok |-> FALSE, z |-> 0, n |-> 0]

\* Matching of format fmt from directive k against s from position i: the
\* whole string must be consumed (exact match); a numeric field takes two
\* digits when the rest then matches, otherwise one.
RECURSIVE strptime(_, _, _, _, _)
strptime(fmt, k, s, i, acc) ==
    IF k > Len(fmt) THEN (IF i > Len(s) THEN acc ELSE NoMatch)
    ELSE LET dv == fmt[k] IN
      CASE dv = "%Y" ->
             IF AllDigits(s, i, 4)
             THEN strptime(fmt, k + 1, s, i + 4, [acc EXCEPT !.Y = NumOf(s, i, 4)])
             ELSE NoMatch
        [] dv \in TwoDigitDirectives ->
             LET two == IF CanTake(dv, s, i, 2)
                        THEN strptime(fmt, k + 1, s, i + 2,
                                 [acc EXCEPT ![FieldOf(dv)] = NumOf(s, i, 2)])
                        ELSE NoMatch
             IN IF two.ok THEN two
                ELSE IF CanTake(dv, s, i, 1)
                     THEN strptime(fmt, k + 1, s, i + 1,
                              [acc EXCEPT ![FieldOf(dv)] = NumOf(s, i, 1)])
                     ELSE NoMatch
        [] dv = "%p" ->
             IF i + 1 <= Len(s) /\ s[i] \in {"A", "P"} /\ s[i + 1] = "M"
             THEN strptime(fmt, k + 1, s, i + 2, [acc EXCEPT !.pm = (s[i] = "P")])
             ELSE NoMatch
        [] dv = "%z" ->
             LET zn == ZoneAt(s, i)
             IN IF zn.ok THEN strptime(fmt, k + 1, s, i + zn.n, [acc EXCEPT !.z = zn.z])
                ELSE NoMatch
        [] dv = " " ->
             IF i <= Len(s) /\ s[i] = " "
             THEN strptime(fmt, k + 1, s, SkipSpaces(s, i), acc)
             ELSE NoMatch
        [] OTHER ->
             IF i <= Len(s) /\ s[i] = dv THEN strptime(fmt, k + 1, s, i + 1, acc)
             ELSE NoMatch

IsLeap(y) == (y % 4 = 0 /\ y % 100 # 0) \/ y % 400 = 0
DaysInMonth(y, m) ==
    IF m = 2 THEN (IF IsLeap(y) THEN 29 ELSE 28)
    ELSE IF m \in {4, 6, 9, 11} THEN 30 ELSE 31

\* Days from 1970-01-01 to the civil date y-m-d.
DaysFromCivil(y, m, d) ==
    LET yy == IF m <= 2 THEN y - 1 ELSE y
        era == yy \div 400
        yoe == yy - era * 400
        mp == IF m > 2 THEN m - 3 ELSE m + 9
        doy == (153 * mp + 2) \div 5 + d - 1
        doe == yoe * 365 + yoe \div 4 - yoe \div 100 + doy
    IN era * 146097 + doe - 719468

HasDirective(fmt, dv) == \E k \in DOMAIN fmt : fmt[k] = dv

\* pd.to_datetime(text_value, format=fmt, utc=True): ok = FALSE is the
\* ValueError; a parse without offset is taken as UTC, one with an offset is
\* converted to UTC.
to_datetime(s, fmt) ==
    LET r == strptime(fmt, 1, s, 1, EmptyMatch)
        mo == IF HasDirective(fmt, "%m") THEN r.m ELSE 1
        dy == IF HasDirective(fmt, "%d") THEN r.d ELSE 1
        hr == IF HasDirective(fmt, "%I")
              THEN (r.I % 12) + (IF r.pm THEN 12 ELSE 0)
              ELSE r.H
    IN IF r.ok /\ dy <= DaysInMonth(r.Y, mo) /\ r.S <= 59
       THEN [ok |-> TRUE,
             v |-> DaysFromCivil(r.Y, mo, dy) * 86400 + hr * 3600 + r.M * 60 + r.S - r.z]
       ELSE [ok |-> FALSE, v |-> 0]

\* The list `formats` of parse_datetime, in its declared order.
formats ==
    << <<"%Y", "-", "%m", "-", "%d", "T", "%H", ":", "%M", ":", "%S", "%z">>,
       <<"%m", "/", "%d", "/", "%Y", " ", "%I", ":", "%M", ":", "%S", " ", "%p">>,
       <<"%Y", "-", "%m", "-", "%d", " ", "%H", ":", "%M", ":", "%S">>,
       <<"%Y", "%m", "%d", "T", "%H", "%M", "%S", "Z">>,
       <<"%Y", "-", "%m", "-", "%d">> >>

ParseIdle ==
    /\ text_value = NullStr
    /\ fmt_index = 0
    /\ tried = <<>>
    /\ parse_result = NullNum

\* if pd.isna(text_value): return None       (lines 74-75)
parse_isna ==
    /\ pc = "parse_called"
    /\ IF text_value.null
       THEN pc' = "parse_returned" /\ parse_result' = NullNum /\ fmt_index' = fmt_index
       ELSE pc' = "parse_loop" /\ fmt_index' = 1 /\ parse_result' = parse_result
    /\ UNCHANGED <<text_value, tried, reconVars, cleanVars, ioVars, autoVars>>

\* Variant of the loop body that gives up at the first ValueError.
parse_try_no_continue ==
    /\ pc = "parse_loop"
    /\ fmt_index <= Len(formats)
    /\ tried' = Append(tried, fmt_index)
    /\ LET r == to_datetime(text_value.v, formats[fmt_index])
       IN /\ pc' = "parse_returned"
          /\ parse_result' = IF r.ok THEN Num(r.v) ELSE NullNum
          /\ fmt_index' = fmt_index
    /\ UNCHANGED <<text_value, reconVars, cleanVars, ioVars, autoVars>>

\* for fmt in formats: try: return pd.to_datetime(...)
\*                     except ValueError: continue        (lines 83-87)
parse_try ==
    /\ pc = "parse_loop"
    /\ fmt_index <= Len(formats)
    /\ tried' = Append(tried, fmt_index)
    /\ LET r == to_datetime(text_value.v, formats[fmt_index])
       IN IF r.ok
          THEN pc' = "parse_returned" /\ parse_result' = Num(r.v) /\ fmt_index' = fmt_index
          ELSE pc' = "parse_loop" /\ fmt_index' = fmt_index + 1
               /\ parse_result' = parse_result
    /\ UNCHANGED <<text_value, reconVars, cleanVars, ioVars, autoVars>>

\* return None after the loop                (line 88)
parse_exhausted ==
    /\ pc = "parse_loop"
    /\ fmt_index > Len(formats)
    /\ pc' = "parse_returned"
    /\ parse_result' = NullNum
    /\ UNCHANGED <<text_value, fmt_index, tried, reconVars, cleanVars, ioVars, autoVars>>

-----------------------------------------------------------------------------
(* Strings, numbers and CSV cells.  A text value is a sequence of          *)
(* one-character strings; a CSV file is a sequence of rows of such fields. *)

UpperLetters ==
    <<"A", "B", "C", "D", "E", "F", "G", "H", "I", "J", "K", "L", "M", "N", "O", "P", "Q", "R", "S", "T", "U", "V", "W", "X", "Y", "Z">>
LowerLetters ==
    <<"a", "b", "c", "d", "e", "f", "g", "h", "i", "j", "k", "l", "m", "n", "o", "p", "q", "r", "s", "t", "u", "v", "w", "x", "y", "z">>
IsUpper(c) == \E q \in 1..26 : UpperLetters[q] = c
IsLower(c) == \E q \in 1..26 : LowerLetters[q] = c
ToLower(c) == IF IsUpper(c) THEN LowerLetters[CHOOSE q \in 1..26 : UpperLetters[q] = c] ELSE c
ToUpper(c) == IF IsLower(c) THEN UpperLetters[CHOOSE q \in 1..26 : LowerLetters[q] = c] ELSE c
IsSpace(c) == c \in {" ", "\t"}

RECURSIVE LStrip(_)
LStrip(s) == IF Len(s) > 0 /\ IsSpace(Head(s)) THEN LStrip(Tail(s)) ELSE s
RECURSIVE RStrip(_)
RStrip(s) ==
    IF Len(s) > 0 /\ IsSpace(s[Len(s)]) THEN RStrip(SubSeq(s, 1, Len(s) - 1)) ELSE s

\* Series.str.strip / .str.lower / .str.upper / .str.replace(r'[^a-zA-Z]', '')
\* on one cell; a missing cell stays missing.
str_strip(c) == IF c.null THEN c ELSE [c EXCEPT !.v = RStrip(LStrip(c.v))]
str_lower(c) == IF c.null THEN c ELSE [c EXCEPT !.v = [k \in DOMAIN c.v |-> ToLower(c.v[k])]]
str_upper(c) == IF c.null THEN c ELSE [c EXCEPT !.v = [k \in DOMAIN c.v |-> ToUpper(c.v[k])]]
str_replace_non_letters_or_digits(c) ==
    IF c.null THEN c
    ELSE [c EXCEPT !.v = SelectSeq(c.v, LAMBDA ch : IsUpper(ch) \/ IsLower(ch) \/ IsDigit(ch))]
str_replace_non_letters(c) ==
    IF c.null THEN c
    ELSE [c EXCEPT !.v = SelectSeq(c.v, LAMBDA ch : IsUpper(ch) \/ IsLower(ch))]

\* A decimal numeral with at most two decimals, as a number of hundredths:
\* [-]d+[.d[d]]
\* The other spellings pd.to_numeric accepts (".5", "5.", exponents, more
\* decimals) are not among the fields of the sample rows.
ParseNumber(s) ==
    LET neg == Len(s) > 0 /\ s[1] = "-"
        b == IF neg THEN 2 ELSE 1
        dots == {k \in b..Len(s) : s[k] = "."}
        e == IF dots = {} THEN Len(s) + 1 ELSE CHOOSE k \in dots : TRUE
        nfrac == Len(s) - e
        int == IF e > b /\ AllDigits(s, b, e - b) THEN NumOf(s, b, e - b) ELSE -1
        frac == IF dots = {} THEN 0
                ELSE IF nfrac \in {1, 2} /\ AllDigits(s, e + 1, nfrac)
                     THEN NumOf(s, e + 1, nfrac) * (IF nfrac = 1 THEN 10 ELSE 1)
                     ELSE -1
    IN IF Cardinality(dots) <= 1 /\ int >= 0 /\ frac >= 0
       THEN [ok |-> TRUE, v |-> (IF neg THEN -1 ELSE 1) * (int * 100 + frac),
             integral |-> dots = {}]
       ELSE [ok |-> FALSE, v |-> 0, integral |-> FALSE]

RECURSIVE FormatNat(_)
FormatNat(n) ==
    IF n < 10 THEN <<Digits[n + 1]>> ELSE FormatNat(n \div 10) \o <<Digits[(n % 10) + 1]>>
Pad2(n) == <<Digits[(n \div 10) + 1], Digits[(n % 10) + 1]>>
Pad4(n) == Pad2(n \div 100) \o Pad2(n % 100)

\* to_csv of a float64 amount (the shortest repr: 100.0, 100.5, 100.25).
FormatFloat(n) ==
    LET a == IF n < 0 THEN -n ELSE n
        fr == a % 100
    IN (IF n < 0 THEN <<"-">> ELSE <<>>) \o FormatNat(a \div 100) \o <<".">>
       \o (IF fr % 10 = 0 THEN <<Digits[(fr \div 10) + 1]>> ELSE Pad2(fr))

\* The civil date of a day number (inverse of DaysFromCivil).
CivilFromDays(z0) ==
    LET z == z0 + 719468
        era == z \div 146097
        doe == z - era * 146097
        yoe == (doe - doe \div 1460 + doe \div 36524 - doe \div 146096) \div 365
        doy == doe - (365 * yoe + yoe \div 4 - yoe \div 100)
        mp == (5 * doy + 2) \div 153
        d == doy - (153 * mp + 2) \div 5 + 1
        m == IF mp < 10 THEN mp + 3 ELSE mp - 9
    IN [y |-> yoe + era * 400 + (IF m <= 2 THEN 1 ELSE 0), m |-> m, d |-> d]

\* to_csv of a UTC timestamp: "YYYY-MM-DD HH:MM:SS+00:00".
FormatTimestamp(t) ==
    LET c == CivilFromDays(t \div 86400)
        sod == t % 86400
    IN Pad4(c.y) \o <<"-">> \o Pad2(c.m) \o <<"-">> \o Pad2(c.d) \o <<" ">>
       \o Pad2(sod \div 3600) \o <<":">> \o Pad2((sod % 3600) \div 60) \o <<":">>
       \o Pad2(sod % 60) \o <<"+", "0", "0", ":", "0", "0">>

\* The strings pd.read_csv reads as a missing value (default na_values),
\* among those the samples use.
na_values == { <<>>, <<"N", "A">>, <<"n", "a", "n">> }

\* pd.read_csv of one field.
read_csv_cell(field) == IF field \in na_values THEN NullStr ELSE Str(field)

-----------------------------------------------------------------------------
(* clean_data_for_date (clean_data.py:90-175): the canonicalization of the *)
(* three entities.  A dataframe is a sequence of rows, a row a record of   *)
(* cells.                                                                  *)

\* parse_datetime as applied to one cell by Series.apply (lines 72-88).
RECURSIVE parse_formats(_, _)
parse_formats(s, k) ==
    IF k > Len(formats) THEN NullNum
    ELSE LET r == to_datetime(s, formats[k])
         IN IF r.ok THEN Num(r.v) ELSE parse_formats(s, k + 1)

parse_datetime(c) == IF c.null THEN NullNum ELSE parse_formats(c.v, 1)

\* Variant of pd.to_numeric that puts 0 where the text is not a numeral.
to_numeric_zero_default(c) ==
    IF c.null THEN NullNum
    ELSE IF ParseNumber(c.v).ok THEN Num(ParseNumber(c.v).v) ELSE Num(0)

\* pd.to_numeric(column, errors='coerce') on one cell of a text or numeric
\* column: a numeral gives its value, anything else NaN.
to_numeric(c) ==
    IF c.null THEN NullNum
    ELSE IF ParseNumber(c.v).ok THEN Num(ParseNumber(c.v).v) ELSE NullNum

\* pd.read_csv of a raw file; the three staging tables and the SELECT that
\* reads them back keep the rows, their order and the column types.
read_csv(file) == [i \in DOMAIN file |-> [col \in DOMAIN file[i] |-> read_csv_cell(file[i][col])]]

\* The column is read as int64 / float64 (and stays so through the staging
\* table): some cell is present and every present cell is a numeral.
\* Series.str raises AttributeError on such a column.
numeric_column(df, col) ==
    /\ \E i \in DOMAIN df : ~df[i][col].null
    /\ \A i \in DOMAIN df : df[i][col].null \/ ParseNumber(df[i][col].v).ok

str_accessor_raises(df, cols) == \E col \in cols : numeric_column(df, col)

\* Lines 132-136.
accounts_str_columns == {"user_id", "account_type"}
clean_accounts_row(r) ==
    [grab_account_id |-> r.grab_account_id,
     user_id |-> str_strip(r.user_id),
     account_type |-> str_lower(r.account_type),
     created_at |-> parse_datetime(r.created_at),
     updated_at |-> parse_datetime(r.updated_at)]

\* Lines 142-151.
grab_str_columns ==
    {"transaction_type", "currency_code", "status", "partner_name", "payment_method"}
clean_grab_row_status_case_kept(r) ==
    [transaction_id |-> r.transaction_id,
     grab_account_id |-> r.grab_account_id,
     transaction_datetime |-> parse_datetime(r.transaction_datetime),
     transaction_type |-> str_lower(str_strip(r.transaction_type)),
     amount |-> to_numeric(r.amount),
     currency_code |-> str_replace_non_letters(str_upper(str_strip(r.currency_code))),
     status |-> str_strip(r.status),
     partner_name |-> str_strip(r.partner_name),
     payment_method |-> str_lower(str_strip(r.payment_method)),
     created_at |-> parse_datetime(r.created_at),
     updated_at |-> parse_datetime(r.updated_at)]
clean_grab_row(r) ==
    [transaction_id |-> r.transaction_id,
     grab_account_id |-> r.grab_account_id,
     transaction_datetime |-> parse_datetime(r.transaction_datetime),
     transaction_type |-> str_lower(str_strip(r.transaction_type)),
     amount |-> to_numeric(r.amount),
     currency_code |-> str_replace_non_letters(str_upper(str_strip(r.currency_code))),
     status |-> str_lower(str_strip(r.status)),
     partner_name |-> str_strip(r.partner_name),
     payment_method |-> str_lower(str_strip(r.payment_method)),
     created_at |-> parse_datetime(r.created_at),
     updated_at |-> parse_datetime(r.updated_at)]

\* Lines 157-166.
partner_str_columns == grab_str_columns
clean_partner_row(r) ==
    [partner_transaction_id |-> r.partner_transaction_id,
     grab_transaction_id |-> r.grab_transaction_id,
     grab_account_id |-> r.grab_account_id,
     transaction_datetime |-> parse_datetime(r.transaction_datetime),
     transaction_type |-> str_lower(str_strip(r.transaction_type)),
     amount |-> to_numeric(r.amount),
     currency_code |-> str_replace_non_letters(str_upper(str_strip(r.currency_code))),
     status |-> str_lower(str_strip(r.status)),
     payment_method |-> str_lower(str_strip(r.payment_method)),
     created_at |-> parse_datetime(r.created_at),
     updated_at |-> parse_datetime(r.updated_at),
     partner_name |-> str_strip(r.partner_name)]

clean_accounts(df) == [i \in DOMAIN df |-> clean_accounts_row(df[i])]
clean_grab(df) == [i \in DOMAIN df |-> clean_grab_row(df[i])]
clean_partner(df) == [i \in DOMAIN df |-> clean_partner_row(df[i])]

timestamp_columns == {"transaction_datetime", "created_at", "updated_at"}

\* DataFrame.to_csv of a cleaned dataframe, one field: a missing value is
\* the empty field, an amount prints as a float, an instant as
\* "YYYY-MM-DD HH:MM:SS+00:00", text as itself.
to_csv_field(col, c) ==
    IF c.null THEN <<>>
    ELSE IF col = "amount" THEN FormatFloat(c.v)
    ELSE IF col \in timestamp_columns THEN FormatTimestamp(c.v)
    ELSE c.v

to_csv(df) == [i \in DOMAIN df |-> [col \in DOMAIN df[i] |-> to_csv_field(col, df[i][col])]]

\* load_csv_to_dataframe of a cleaned file (reconcile_data_sql.py:79-88):
\* the amount column holds numerals and empty fields only and is read as
\* float64, every other column is read as text.
load_cleaned_cell(col, field) ==
    IF col = "amount"
    THEN (IF field \in na_values THEN NullNum ELSE to_numeric(Str(field)))
    ELSE read_csv_cell(field)

load_csv_to_dataframe(file) ==
    [i \in DOMAIN file |-> [col \in DOMAIN file[i] |-> load_cleaned_cell(col, file[i][col])]]

-----------------------------------------------------------------------------
(* convert_dataframe_column_types (reconcile_data_sql.py:127-151)          *)

\* The spelling of every column name of the four result dataframes, for the
\* substring tests ('amount' in col, ...).
ColumnChars ==
    [transaction_id |-> <<"t", "r", "a", "n", "s", "a", "c", "t", "i", "o", "n", "_", "i", "d">>,
     grab_account_id |-> <<"g", "r", "a", "b", "_", "a", "c", "c", "o", "u", "n", "t", "_", "i", "d">>,
     transaction_datetime |-> <<"t", "r", "a", "n", "s", "a", "c", "t", "i", "o", "n", "_", "d", "a", "t", "e", "t", "i", "m", "e">>,
     transaction_type |-> <<"t", "r", "a", "n", "s", "a", "c", "t", "i", "o", "n", "_", "t", "y", "p", "e">>,
     amount |-> <<"a", "m", "o", "u", "n", "t">>,
     currency_code |-> <<"c", "u", "r", "r", "e", "n", "c", "y", "_", "c", "o", "d", "e">>,
     status |-> <<"s", "t", "a", "t", "u", "s">>,
     partner_name |-> <<"p", "a", "r", "t", "n", "e", "r", "_", "n", "a", "m", "e">>,
     payment_method |-> <<"p", "a", "y", "m", "e", "n", "t", "_", "m", "e", "t", "h", "o", "d">>,
     created_at |-> <<"c", "r", "e", "a", "t", "e", "d", "_", "a", "t">>,
     updated_at |-> <<"u", "p", "d", "a", "t", "e", "d", "_", "a", "t">>,
     partner_transaction_id |-> <<"p", "a", "r", "t", "n", "e", "r", "_", "t", "r", "a", "n", "s", "a", "c", "t", "i", "o", "n", "_", "i", "d">>,
     grab_transaction_id |-> <<"g", "r", "a", "b", "_", "t", "r", "a", "n", "s", "a", "c", "t", "i", "o", "n", "_", "i", "d">>,
     grab_amount |-> <<"g", "r", "a", "b", "_", "a", "m", "o", "u", "n", "t">>,
     grab_currency_code |-> <<"g", "r", "a", "b", "_", "c", "u", "r", "r", "e", "n", "c", "y", "_", "c", "o", "d", "e">>,
     grab_status |-> <<"g", "r", "a", "b", "_", "s", "t", "a", "t", "u", "s">>,
     grab_created_at |-> <<"g", "r", "a", "b", "_", "c", "r", "e", "a", "t", "e", "d", "_", "a", "t">>,
     grab_updated_at |-> <<"g", "r", "a", "b", "_", "u", "p", "d", "a", "t", "e", "d", "_", "a", "t">>,
     grab_transaction_datetime |-> <<"g", "r", "a", "b", "_", "t", "r", "a", "n", "s", "a", "c", "t", "i", "o", "n", "_", "d", "a", "t", "e", "t", "i", "m", "e">>,
     partner_grab_transaction_id |-> <<"p", "a", "r", "t", "n", "e", "r", "_", "g", "r", "a", "b", "_", "t", "r", "a", "n", "s", "a", "c", "t", "i", "o", "n", "_", "i", "d">>,
     partner_grab_account_id |-> <<"p", "a", "r", "t", "n", "e", "r", "_", "g", "r", "a", "b", "_", "a", "c", "c", "o", "u", "n", "t", "_", "i", "d">>,
     partner_amount |-> <<"p", "a", "r", "t", "n", "e", "r", "_", "a", "m", "o", "u", "n", "t">>,
     partner_currency_code |-> <<"p", "a", "r", "t", "n", "e", "r", "_", "c", "u", "r", "r", "e", "n", "c", "y", "_", "c", "o", "d", "e">>,
     partner_status |-> <<"p", "a", "r", "t", "n", "e", "r", "_", "s", "t", "a", "t", "u", "s">>,
     partner_created_at |-> <<"p", "a", "r", "t", "n", "e", "r", "_", "c", "r", "e", "a", "t", "e", "d", "_", "a", "t">>,
     partner_updated_at |-> <<"p", "a", "r", "t", "n", "e", "r", "_", "u", "p", "d", "a", "t", "e", "d", "_", "a", "t">>,
     partner_transaction_datetime |-> <<"p", "a", "r", "t", "n", "e", "r", "_", "t", "r", "a", "n", "s", "a", "c", "t", "i", "o", "n", "_", "d", "a", "t", "e", "t", "i", "m", "e">>]

Contains(sub, name) ==
    \E b \in 1..(Len(name) - Len(sub) + 1) : SubSeq(name, b, b + Len(sub) - 1) = sub

\* The chain without its 'account_id' test.
column_kind_without_account_id(col) ==
    LET n == ColumnChars[col] IN
    IF Contains(<<"a", "m", "o", "u", "n", "t">>, n) THEN "numeric"
    ELSE IF Contains(<<"s", "t", "a", "t", "u", "s">>, n) THEN "str"
    ELSE IF Contains(<<"c", "u", "r", "r", "e", "n", "c", "y", "_", "c", "o", "d", "e">>, n) THEN "str"
    ELSE IF Contains(<<"i", "d">>, n) /\ col # "grab_account_id" THEN "str"
    ELSE IF Contains(<<"n", "a", "m", "e">>, n) \/ Contains(<<"t", "y", "p", "e">>, n) \/ Contains(<<"m", "e", "t", "h", "o", "d">>, n) THEN "str"
    ELSE IF Contains(<<"d", "a", "t", "e", "t", "i", "m", "e">>, n) \/ Contains(<<"c", "r", "e", "a", "t", "e", "d", "_", "a", "t">>, n) \/ Contains(<<"u", "p", "d", "a", "t", "e", "d", "_", "a", "t">>, n)
         THEN "datetime"
    ELSE "unchanged"

\* The branch of the if/elif chain that a column takes: the first test that
\* holds, in the order of the code.
column_kind(col) ==
    LET n == ColumnChars[col] IN
    IF Contains(<<"a", "m", "o", "u", "n", "t">>, n) THEN "numeric"
    ELSE IF Contains(<<"s", "t", "a", "t", "u", "s">>, n) THEN "str"
    ELSE IF Contains(<<"c", "u", "r", "r", "e", "n", "c", "y", "_", "c", "o", "d", "e">>, n) THEN "str"
    ELSE IF Contains(<<"i", "d">>, n) /\ col # "grab_account_id" THEN "str"
    ELSE IF Contains(<<"a", "c", "c", "o", "u", "n", "t", "_", "i", "d">>, n) THEN "str"
    ELSE IF Contains(<<"n", "a", "m", "e">>, n) \/ Contains(<<"t", "y", "p", "e">>, n) \/ Contains(<<"m", "e", "t", "h", "o", "d">>, n) THEN "str"
    ELSE IF Contains(<<"d", "a", "t", "e", "t", "i", "m", "e">>, n) \/ Contains(<<"c", "r", "e", "a", "t", "e", "d", "_", "a", "t">>, n) \/ Contains(<<"u", "p", "d", "a", "t", "e", "d", "_", "a", "t">>, n)
         THEN "datetime"
    ELSE "unchanged"

\* Series.astype(str) on an object column that sqldf returned: None prints
\* as "None".
astype_str(c) == IF c.null THEN Str(<<"N", "o", "n", "e">>) ELSE c

\* The format to_csv wrote the instants in, which pd.to_datetime(...,
\* errors='coerce', utc=True) recognises; anything else becomes NaT.
csv_timestamp_format ==
    <<"%Y", "-", "%m", "-", "%d", " ", "%H", ":", "%M", ":", "%S", "%z">>
to_datetime_coerce(c) ==
    IF c.null THEN NullNum
    ELSE LET r == to_datetime(c.v, csv_timestamp_format)
         IN IF r.ok THEN Num(r.v) ELSE NullNum

\* convert_cell with the existing datetime columns converted to another
\* zone's wall clock instead of their own.
convert_cell_other_zone(col, c, is_datetime) ==
    LET kind == column_kind(col) IN
    IF kind = "numeric" THEN c
    ELSE IF kind = "str" THEN astype_str(c)
    ELSE IF kind = "datetime" /\ col \notin is_datetime THEN to_datetime_coerce(c)
    ELSE IF kind = "datetime" /\ ~c.null THEN Num(c.v + 28800)
    ELSE c

\* One cell of column col; is_datetime is the set of columns that already
\* have a datetime dtype (they are left as they are: tz_convert to the own
\* zone).  An amount that sqldf returned is a number or NULL, and stays so
\* under pd.to_numeric.
convert_cell(col, c, is_datetime) ==
    LET kind == column_kind(col) IN
    IF kind = "numeric" THEN c
    ELSE IF kind = "str" THEN astype_str(c)
    ELSE IF kind = "datetime" /\ col \notin is_datetime THEN to_datetime_coerce(c)
    ELSE c

convert_dataframe_column_types(df, is_datetime) ==
    [i \in DOMAIN df |-> [col \in DOMAIN df[i] |-> convert_cell(col, df[i][col], is_datetime)]]

\* The columns of the dataframe returned that have a datetime dtype: those
\* that had one, and those line 147 assigns the result of pd.to_datetime to.
converted_datetime_columns(columns, is_datetime) ==
    is_datetime \cup {col \in columns : column_kind(col) = "datetime"}

-----------------------------------------------------------------------------
(* Rows of the two cleaned datasets as load_csv_to_dataframe reads them *)

GrabRow(tid, acct, amt, cur, st) ==
    [transaction_id |-> tid, grab_account_id |-> acct,
     transaction_datetime |-> Str(FormatTimestamp(1715940000)),
     transaction_type |-> Str(<<"d", "e", "b", "i", "t">>),
     amount |-> amt, currency_code |-> cur, status |-> st,
     partner_name |-> Str(<<"A", "c", "m", "e">>), payment_method |-> Str(<<"c", "a", "s", "h">>),
     created_at |-> Str(FormatTimestamp(1715940000)), updated_at |-> NullStr]

PartnerRow(pid, tid, acct, amt, cur, st) ==
    [partner_transaction_id |-> pid, grab_transaction_id |-> tid,
     grab_account_id |-> acct,
     transaction_datetime |-> Str(FormatTimestamp(1715943600)),
     transaction_type |-> Str(<<"d", "e", "b", "i", "t">>),
     amount |-> amt, currency_code |-> cur, status |-> st,
     payment_method |-> Str(<<"c", "a", "s", "h">>),
     created_at |-> Str(FormatTimestamp(1715940000)), updated_at |-> NullStr,
     partner_name |-> Str(<<"B", "o", "l", "t">>)]

\* The columns of the four result dataframes: those of the SELECT lists.
PartitionColumns ==
    LET gt == GrabRow(NullStr, NullStr, NullNum, NullStr, NullStr)
        pt == PartnerRow(NullStr, NullStr, NullStr, NullNum, NullStr, NullStr)
    IN [reconciled_transactions |-> DOMAIN match_select(gt, pt),
        grab_only_transactions |-> DOMAIN gt,
        partner_only_transactions |-> DOMAIN pt,
        discrepant_transactions |-> DOMAIN discrepancy_select(gt, pt)]

-----------------------------------------------------------------------------
(* Specification SpecRecon: the reconciliation queries applied to bounded  *)
(* pairs of cleaned datasets.                                              *)

MaxRows == 2

T1 == Str(<<"T", "1">>)
T2 == Str(<<"T", "2">>)
T3 == Str(<<"T", "3">>)
A1 == Str(<<"A", "1">>)
A2 == Str(<<"A", "2">>)
PHP == Str(<<"P", "H", "P">>)
USD == Str(<<"U", "S", "D">>)
success == Str(<<"s", "u", "c", "c", "e", "s", "s">>)
failed == Str(<<"f", "a", "i", "l", "e", "d">>)
PartnerId(n) == Str(<<"P", Digits[n + 1]>>)

GrabUniverse ==
    { GrabRow(T1, A1, Num(10000), PHP, success),
      GrabRow(T1, A2, Num(10000), PHP, success),
      GrabRow(NullStr, A1, Num(10000), PHP, success),
      GrabRow(T1, A1, NullNum, PHP, success),
      GrabRow(T2, NullStr, Num(10000), PHP, success),
      GrabRow(T1, A1, Num(10000), PHP, NullStr) }

PartnerUniverse ==
    { PartnerRow(PartnerId(1), T1, A1, Num(10500), PHP, success),
      PartnerRow(PartnerId(2), T1, A1, Num(10000), PHP, success),
      PartnerRow(PartnerId(3), NullStr, A1, Num(10000), PHP, success),
      PartnerRow(PartnerId(4), T1, A1, NullNum, PHP, success),
      PartnerRow(PartnerId(5), T3, A1, Num(10000), PHP, failed),
      PartnerRow(PartnerId(6), T1, A1, Num(10000), USD, success),
      PartnerRow(PartnerId(7), T1, A1, Num(10000), PHP, failed),
      PartnerRow(PartnerId(8), T2, NullStr, Num(10000), PHP, success) }

SeqsUpTo(S, n) == UNION { [1..k -> S] : k \in 0..n }

InitRecon ==
    /\ pc = "loaded"
    /\ grab_transactions \in SeqsUpTo(GrabUniverse, MaxRows)
    /\ partner_transactions \in SeqsUpTo(PartnerUniverse, MaxRows)
    /\ reconciliation_results = NoResults
    /\ ParseIdle
    /\ AutoIdle
    /\ CleanIdle
    /\ IoIdle

\* Lines 226-307: the two dataframes are published to sqldf and the four
\* queries are evaluated.
RunQueries ==
    /\ pc = "loaded"
    /\ reconciliation_results' = sqldf_results(grab_transactions, partner_transactions)
    /\ pc' = "reconciled"
    /\ UNCHANGED <<grab_transactions, partner_transactions, parseVars, autoVars, cleanVars, ioVars>>

NextRecon == RunQueries

SpecRecon == InitRecon /\ [][NextRecon]_vars

-----------------------------------------------------------------------------
(* Properties of the four-way partition *)

Count(seq, x) == Cardinality({k \in DOMAIN seq : seq[k] = x})
Range(seq) == {seq[k] : k \in DOMAIN seq}

matched == reconciliation_results.reconciled_transactions
source_only == reconciliation_results.grab_only_transactions
counterpart_only == reconciliation_results.partner_only_transactions
discrepant == reconciliation_results.discrepant_transactions

\* The part of a matched row that comes from the source / counterpart row.
SourceSide(m) ==
    <<m.grab_transaction_id, m.grab_account_id, m.grab_amount,
      m.grab_currency_code, m.grab_status, m.grab_created_at,
      m.grab_updated_at, m.grab_transaction_datetime>>
SourceFields(s) ==
    <<s.transaction_id, s.grab_account_id, s.amount, s.currency_code,
      s.status, s.created_at, s.updated_at, s.transaction_datetime>>
CounterpartSide(m) ==
    <<m.partner_grab_transaction_id, m.partner_grab_account_id,
      m.partner_amount, m.partner_currency_code, m.partner_status,
      m.partner_created_at, m.partner_updated_at,
      m.partner_transaction_datetime>>
CounterpartFields(c) ==
    <<c.grab_transaction_id, c.grab_account_id, c.amount, c.currency_code,
      c.status, c.created_at, c.updated_at, c.transaction_datetime>>

SourceInMatched(s) == \E k \in DOMAIN matched : SourceSide(matched[k]) = SourceFields(s)
CounterpartInMatched(c) ==
    \E k \in DOMAIN matched : CounterpartSide(matched[k]) = CounterpartFields(c)

\* C1: every source row is in exactly one of matched / source_only and every
\* counterpart row in exactly one of matched / counterpart_only; the "only"
\* partitions hold each unmatched input row as often as the input does and
\* nothing else, and every matched row stems from input rows.
C1_PartitionExhaustiveDisjoint ==
    pc = "reconciled" =>
        /\ \A s \in Range(grab_transactions) :
              /\ SourceInMatched(s) # (s \in Range(source_only))
              /\ Count(source_only, s) =
                    IF SourceInMatched(s) THEN 0 ELSE Count(grab_transactions, s)
        /\ \A c \in Range(partner_transactions) :
              /\ CounterpartInMatched(c) # (c \in Range(counterpart_only))
              /\ Count(counterpart_only, c) =
                    IF CounterpartInMatched(c) THEN 0
                    ELSE Count(partner_transactions, c)
        /\ Range(source_only) \subseteq Range(grab_transactions)
        /\ Range(counterpart_only) \subseteq Range(partner_transactions)
        /\ \A k \in DOMAIN matched :
              /\ \E s \in Range(grab_transactions) : SourceSide(matched[k]) = SourceFields(s)
              /\ \E c \in Range(partner_transactions) :
                    CounterpartSide(matched[k]) = CounterpartFields(c)

\* Witness of C1: duplicate keys and a null key component on both sides, with
\* Witness of C1: the three partitions are non-empty, with a source row of
\* null transaction id and a counterpart row of null account id.
C1_Witness ==
    /\ pc = "reconciled"
    /\ Len(matched) >= 1
    /\ \E s \in Range(source_only) : s.transaction_id.null
    /\ \E c \in Range(counterpart_only) : c.grab_account_id.null

\* Plain difference of two canonical values: a null differs from every
\* value and from nothing else.
Differs(a, b) == a # b

PairInDiscrepant(s, c) ==
    \E k \in DOMAIN discrepant : discrepant[k] = discrepancy_select(s, c)
PairInMatched(s, c) ==
    \E k \in DOMAIN matched : matched[k] = match_select(s, c)

\* C2 (as claimed): a joined pair is in discrepant iff its amounts, its
\* statuses or its currency codes differ, null amounts included.
C2_DiscrepantIffDiffers ==
    pc = "reconciled" =>
        \A s \in Range(grab_transactions), c \in Range(partner_transactions) :
            PairInMatched(s, c) =>
                (PairInDiscrepant(s, c) <=>
                    \/ Differs(s.amount, c.amount)
                    \/ Differs(s.status, c.status)
                    \/ Differs(s.currency_code, c.currency_code))

KeyEqual(s, c) ==
    /\ ~s.transaction_id.null /\ ~c.grab_transaction_id.null
    /\ s.transaction_id.v = c.grab_transaction_id.v
    /\ ~s.grab_account_id.null /\ ~c.grab_account_id.null
    /\ s.grab_account_id.v = c.grab_account_id.v

KeyPairs ==
    {p \in (DOMAIN grab_transactions) \X (DOMAIN partner_transactions) :
        KeyEqual(grab_transactions[p[1]], partner_transactions[p[2]])}

Keys == {T1, T2, T3} \X {A1, A2}

\* C3: matched holds one row per pair of a source and a counterpart row that
\* agree on both key components, and nothing else; a key carried by m source
\* rows and n counterpart rows has m*n matched rows.
C3_MatchedIsKeyProduct ==
    pc = "reconciled" =>
        /\ Len(matched) = Cardinality(KeyPairs)
        /\ \A m \in Range(matched) :
              Count(matched, m) =
                 Cardinality({p \in KeyPairs :
                     match_select(grab_transactions[p[1]], partner_transactions[p[2]]) = m})
        /\ \A key \in Keys :
              Cardinality({k \in DOMAIN matched :
                    /\ matched[k].grab_transaction_id = key[1]
                    /\ matched[k].grab_account_id = key[2]})
                 = Cardinality({i \in DOMAIN grab_transactions :
                        /\ grab_transactions[i].transaction_id = key[1]
                        /\ grab_transactions[i].grab_account_id = key[2]})
                   * Cardinality({j \in DOMAIN partner_transactions :
                        /\ partner_transactions[j].grab_transaction_id = key[1]
                        /\ partner_transactions[j].grab_account_id = key[2]})

\* Witness of C3: a key with two source rows and two counterpart rows, which
\* differ in their amounts.
C3_Witness ==
    /\ pc = "reconciled"
    /\ Len(matched) = 4
    /\ \E k \in DOMAIN matched : matched[k].grab_amount # matched[k].partner_amount

-----------------------------------------------------------------------------
(* Specification SpecParse: parse_datetime called on a missing value or on *)
(* a string put together from a date, a separator, a time and a zone.      *)

SampleDates ==
    { <<"2", "0", "2", "4", "-", "0", "5", "-", "1", "7">>,
      <<"0", "5", "/", "1", "7", "/", "2", "0", "2", "4">>,
      <<"2", "0", "2", "4", "0", "5", "1", "7">>,
      <<"2", "0", "2", "4", "-", "0", "2", "-", "3", "0">>,
      <<"2", "0", "2", "4", "-", "5", "-", "7">>,
      <<"2", "0", "2", "4", "-", "1", "2", "-", "3", "1">> }
SampleSeparators == { <<>>, <<"T">>, <<" ">> }
SampleTimes ==
    { <<>>,
      <<"1", "0", ":", "0", "0", ":", "0", "0">>,
      <<"1", "0", "0", "0", "0", "0">>,
      <<"1", "0", ":", "0", "0", ":", "0", "0", " ", "P", "M">>,
      <<"2", "3", ":", "3", "0", ":", "0", "0">> }
SampleZones == { <<>>, <<"Z">>, <<"+", "0", "8", ":", "0", "0">>, <<"-", "0", "5", "3", "0">> }

SampleTexts ==
    { da \o se \o ti \o zo :
        da \in SampleDates, se \in SampleSeparators, ti \in SampleTimes, zo \in SampleZones }

InitParse ==
    /\ pc = "parse_called"
    /\ text_value \in {NullStr} \cup {Str(x) : x \in SampleTexts}
    /\ fmt_index = 0
    /\ tried = <<>>
    /\ parse_result = NullNum
    /\ grab_transactions = <<>>
    /\ partner_transactions = <<>>
    /\ reconciliation_results = NoResults
    /\ CleanIdle
    /\ IoIdle
    /\ AutoIdle

NextParse == parse_isna \/ parse_try \/ parse_exhausted

SpecParse == InitParse /\ [][NextParse]_vars

Accepting(s) == {k \in DOMAIN formats : to_datetime(s, formats[k]).ok}
First(S) == CHOOSE k \in S : \A j \in S : k <= j

IsoWithZ == <<"2", "0", "2", "4", "-", "0", "5", "-", "1", "7", "T", "1", "0", ":", "0", "0", ":", "0", "0", "Z">>
IsoWithSpace == <<"2", "0", "2", "4", "-", "0", "5", "-", "1", "7", " ", "1", "0", ":", "0", "0", ":", "0", "0">>

\* C6: the formats are tried in declared order and the first accepting one
\* gives the result, as a UTC instant; a missing input returns null with no
\* format tried, an input no format accepts returns null; both example
\* strings give 2024-05-17T10:00:00 UTC.
C6_FirstAcceptingFormatWins ==
    pc = "parse_returned" =>
        /\ text_value.null => parse_result.null /\ tried = <<>>
        /\ ~text_value.null /\ Accepting(text_value.v) = {} =>
              parse_result.null /\ tried = <<1, 2, 3, 4, 5>>
        /\ ~text_value.null /\ Accepting(text_value.v) # {} =>
              LET k == First(Accepting(text_value.v))
              IN /\ parse_result = Num(to_datetime(text_value.v, formats[k]).v)
                 /\ tried = [j \in 1..k |-> j]
        /\ text_value \in {Str(IsoWithZ), Str(IsoWithSpace)} =>
              parse_result = Num(1715940000)

\* Witness of C6: the space-separated example was accepted by the third
\* format after the first two refused it.
C6_Witness ==
    /\ pc = "parse_returned"
    /\ text_value = Str(IsoWithSpace)
    /\ tried = <<1, 2, 3>>
    /\ ~parse_result.null

-----------------------------------------------------------------------------
(* Specification SpecClean: the data path of one period, from the raw       *)
(* files through clean_data_for_date, the cleaned CSV files, the queries of *)
(* reconcile_and_export_data_for_date and the type stabilization.  Reads    *)
(* and writes succeed here; their failures are the subject of Spec.         *)

MaxRawRows == 2
MaxAccountRows == 1

RawAccount1 ==
    [grab_account_id |-> <<"A", "1">>, user_id |-> <<" ", "u", "-", "1", " ">>, account_type |-> <<"P", "r", "e", "m", "i", "u", "m">>,
     created_at |-> <<"2", "0", "2", "4", "-", "0", "5", "-", "1", "7", "T", "1", "0", ":", "0", "0", ":", "0", "0", "+", "0", "8", ":", "0", "0">>, updated_at |-> <<"0", "5", "/", "1", "7", "/", "2", "0", "2", "4", " ", "1", "0", ":", "0", "0", ":", "0", "0", " ", "P", "M">>]

RawAccount2 ==
    [grab_account_id |-> <<"A", "2">>, user_id |-> <<"1", "0", "0", "1">>, account_type |-> <<"r", "e", "g", "u", "l", "a", "r">>,
     created_at |-> <<"y", "e", "s", "t", "e", "r", "d", "a", "y">>, updated_at |-> <<>>]

AccountRawUniverse == {RawAccount1, RawAccount2}

RawGrab1 ==
    [transaction_id |-> <<"T", "1">>, grab_account_id |-> <<"A", "1">>,
     transaction_datetime |-> <<"2", "0", "2", "4", "-", "0", "5", "-", "1", "7", "T", "1", "0", ":", "0", "0", ":", "0", "0", "Z">>,
     transaction_type |-> <<" ", "D", "e", "b", "i", "t">>, amount |-> <<"1", "0", "0", ".", "0", "0">>,
     currency_code |-> <<" ", "p", "h", "p", " ">>, status |-> <<"S", "u", "c", "c", "e", "s", "s", " ">>,
     partner_name |-> <<" ", "A", "c", "m", "e", " ">>, payment_method |-> <<"C", "a", "s", "h">>,
     created_at |-> <<"2", "0", "2", "4", "-", "0", "5", "-", "1", "7", " ", "1", "0", ":", "0", "0", ":", "0", "0">>,
     updated_at |-> <<"2", "0", "2", "4", "0", "5", "1", "7", "T", "1", "0", "0", "0", "0", "0", "Z">>]

RawGrab2 ==
    [transaction_id |-> <<"T", "1">>, grab_account_id |-> <<"A", "1">>,
     transaction_datetime |-> <<"1", "7", " ", "M", "a", "y", " ", "2", "0", "2", "4">>,
     transaction_type |-> <<"d", "e", "b", "i", "t">>, amount |-> <<"a", "b", "c">>,
     currency_code |-> <<"P", "-", "H", "-", "P">>, status |-> <<"s", "u", "c", "c", "e", "s", "s">>,
     partner_name |-> <<"A", "c", "m", "e">>, payment_method |-> <<"c", "a", "s", "h">>,
     created_at |-> <<>>,
     updated_at |-> <<"2", "0", "2", "4", "-", "0", "5", "-", "1", "7">>]

RawGrab3 ==
    [transaction_id |-> <<>>, grab_account_id |-> <<"A", "1">>,
     transaction_datetime |-> <<"2", "0", "2", "4", "-", "0", "5", "-", "1", "7", "T", "1", "0", ":", "0", "0", ":", "0", "0", "Z">>,
     transaction_type |-> <<"c", "r", "e", "d", "i", "t">>, amount |-> <<"n", "/", "a">>,
     currency_code |-> <<"u", "s", "d">>, status |-> <<"1">>,
     partner_name |-> <<"A", "c", "m", "e">>, payment_method |-> <<"c", "a", "s", "h">>,
     created_at |-> <<"2", "0", "2", "4", "-", "0", "5", "-", "1", "7", " ", "1", "0", ":", "0", "0", ":", "0", "0">>,
     updated_at |-> <<"2", "0", "2", "4", "-", "0", "2", "-", "3", "0">>]

GrabRawUniverse == {RawGrab1, RawGrab2, RawGrab3}

RawPartner1 ==
    [partner_transaction_id |-> <<"P", "1">>, grab_transaction_id |-> <<"T", "1">>,
     grab_account_id |-> <<"A", "1">>,
     transaction_datetime |-> <<"2", "0", "2", "4", "-", "0", "5", "-", "1", "7", "T", "1", "1", ":", "0", "0", ":", "0", "0", "+", "0", "8", ":", "0", "0">>,
     transaction_type |-> <<"d", "e", "b", "i", "t">>, amount |-> <<"1", "0", "0">>,
     currency_code |-> <<"P", "H", "P">>, status |-> <<"s", "u", "c", "c", "e", "s", "s">>,
     payment_method |-> <<"c", "a", "s", "h">>,
     created_at |-> <<"2", "0", "2", "4", "-", "0", "5", "-", "1", "7", " ", "1", "0", ":", "0", "0", ":", "0", "0">>,
     updated_at |-> <<"2", "0", "2", "4", "0", "5", "1", "7", "T", "1", "0", "0", "0", "0", "0", "Z">>,
     partner_name |-> <<"B", "o", "l", "t">>]

RawPartner2 ==
    [partner_transaction_id |-> <<"P", "2">>, grab_transaction_id |-> <<"T", "1">>,
     grab_account_id |-> <<"A", "1">>,
     transaction_datetime |-> <<"n", "o", "t", " ", "a", " ", "d", "a", "t", "e">>,
     transaction_type |-> <<"d", "e", "b", "i", "t">>, amount |-> <<"1", "2", "x">>,
     currency_code |-> <<"p", "h", "p">>, status |-> <<" ", "S", "U", "C", "C", "E", "S", "S">>,
     payment_method |-> <<"c", "a", "s", "h">>,
     created_at |-> <<>>,
     updated_at |-> <<>>,
     partner_name |-> <<"B", "o", "l", "t", " ">>]

RawPartner3 ==
    [partner_transaction_id |-> <<"P", "3">>, grab_transaction_id |-> <<"T", "3">>,
     grab_account_id |-> <<"A", "2">>,
     transaction_datetime |-> <<"2", "0", "2", "4", "/", "0", "5", "/", "1", "7">>,
     transaction_type |-> <<"c", "r", "e", "d", "i", "t">>, amount |-> <<"1", ",", "0", "0", "0">>,
     currency_code |-> <<"U", "S", "D">>, status |-> <<"2">>,
     payment_method |-> <<"C", "a", "r", "d">>,
     created_at |-> <<"2", "0", "2", "4", "-", "0", "5", "-", "1", "7", " ", "1", "0", ":", "0", "0", ":", "0", "0">>,
     updated_at |-> <<"2", "0", "2", "4", "-", "0", "5", "-", "1", "7">>,
     partner_name |-> <<"B", "o", "l", "t">>]

PartnerRawUniverse == {RawPartner1, RawPartner2, RawPartner3}

InitClean ==
    /\ pc = "clean_accounts"
    /\ raw_files \in [accounts : SeqsUpTo(AccountRawUniverse, MaxAccountRows),
                      grab_transactions : SeqsUpTo(GrabRawUniverse, MaxRawRows),
                      partner_transactions : SeqsUpTo(PartnerRawUniverse, MaxRawRows)]
    /\ cleaned_csv = NoFiles
    /\ saved = {}
    /\ converted_results = NoResults
    /\ datetime_columns = NoDatetimeColumns
    /\ grab_transactions = <<>>
    /\ partner_transactions = <<>>
    /\ reconciliation_results = NoResults
    /\ ParseIdle
    /\ AutoIdle
    /\ IoIdle

\* One "Clean ... Data and Save" section of clean_data_for_date: an
\* AttributeError of a .str accessor leaves the function before anything of
\* the entity is written; otherwise the cleaned rows go to the table and to
\* the CSV file.
clean_section(entity, str_columns, cleaner(_), next_pc) ==
    LET df == read_csv(raw_files[entity]) IN
    /\ IF str_accessor_raises(df, str_columns)
       THEN /\ pc' = "clean_raised"
            /\ UNCHANGED <<cleaned_csv, saved>>
       ELSE /\ pc' = next_pc
            /\ cleaned_csv' = [cleaned_csv EXCEPT ![entity] = to_csv(cleaner(df))]
            /\ saved' = saved \cup {entity}
    /\ UNCHANGED <<raw_files, converted_results, datetime_columns, reconVars, parseVars, autoVars, ioVars>>

\* Lines 130-138.
clean_accounts_section ==
    /\ pc = "clean_accounts"
    /\ clean_section("accounts", accounts_str_columns, clean_accounts, "clean_grab")

\* Lines 140-153.
clean_grab_section ==
    /\ pc = "clean_grab"
    /\ clean_section("grab_transactions", grab_str_columns, clean_grab, "clean_partner")

\* Lines 155-168.
clean_partner_section ==
    /\ pc = "clean_partner"
    /\ clean_section("partner_transactions", partner_str_columns, clean_partner,
                     "clean_done")

\* reconcile_data_sql.py:213-227: the two cleaned files are loaded.
load_cleaned ==
    /\ pc = "clean_done"
    /\ grab_transactions' = load_csv_to_dataframe(cleaned_csv.grab_transactions)
    /\ partner_transactions' = load_csv_to_dataframe(cleaned_csv.partner_transactions)
    /\ pc' = "loaded"
    /\ UNCHANGED <<reconciliation_results, parseVars, autoVars, cleanVars, ioVars>>

\* reconcile_data_sql.py:317-319, for the four partitions.
convert_results ==
    /\ pc = "reconciled"
    /\ converted_results' =
          [part \in DOMAIN reconciliation_results |->
              convert_dataframe_column_types(reconciliation_results[part], {})]
    /\ datetime_columns' =
          [part \in DOMAIN reconciliation_results |->
              converted_datetime_columns(PartitionColumns[part], {})]
    /\ pc' = "converted"
    /\ UNCHANGED <<raw_files, cleaned_csv, saved, reconVars, parseVars, autoVars, ioVars>>

NextClean ==
    \/ clean_accounts_section
    \/ clean_grab_section
    \/ clean_partner_section
    \/ load_cleaned
    \/ RunQueries
    \/ convert_results

SpecClean == InitClean /\ [][NextClean]_vars

-----------------------------------------------------------------------------
(* Properties of the canonicalization and of the propagation of nulls *)

IdColumn ==
    [accounts |-> "grab_account_id", grab_transactions |-> "transaction_id",
     partner_transactions |-> "partner_transaction_id"]

\* C4 (as claimed): canonicalization never raises because of a cell value,
\* and every cleaned file has one record per raw row, in the raw order.
C4_CanonicalizationTotal ==
    /\ pc # "clean_raised"
    /\ \A entity \in saved :
          /\ Len(cleaned_csv[entity]) = Len(raw_files[entity])
          /\ \A i \in DOMAIN raw_files[entity] :
                cleaned_csv[entity][i][IdColumn[entity]]
                   = raw_files[entity][i][IdColumn[entity]]

\* The column of each partition that carries a given column of the source
\* row (SELECT lists of the four queries).
SourceColumnIn ==
    [reconciled_transactions |->
        [transaction_id |-> "grab_transaction_id", grab_account_id |-> "grab_account_id",
         amount |-> "grab_amount", currency_code |-> "grab_currency_code",
         status |-> "grab_status", created_at |-> "grab_created_at",
         updated_at |-> "grab_updated_at",
         transaction_datetime |-> "grab_transaction_datetime"],
     discrepant_transactions |->
        [transaction_id |-> "transaction_id", grab_account_id |-> "grab_account_id",
         amount |-> "grab_amount", currency_code |-> "grab_currency_code",
         status |-> "grab_status", created_at |-> "grab_created_at",
         updated_at |-> "grab_updated_at",
         transaction_datetime |-> "grab_transaction_datetime"],
     grab_only_transactions |->
        [transaction_id |-> "transaction_id", grab_account_id |-> "grab_account_id",
         transaction_datetime |-> "transaction_datetime",
         transaction_type |-> "transaction_type", amount |-> "amount",
         currency_code |-> "currency_code", status |-> "status",
         partner_name |-> "partner_name", payment_method |-> "payment_method",
         created_at |-> "created_at", updated_at |-> "updated_at"]]

\* The same for the counterpart row.
CounterpartColumnIn ==
    [reconciled_transactions |->
        [grab_transaction_id |-> "partner_grab_transaction_id",
         grab_account_id |-> "partner_grab_account_id",
         amount |-> "partner_amount", currency_code |-> "partner_currency_code",
         status |-> "partner_status", created_at |-> "partner_created_at",
         updated_at |-> "partner_updated_at",
         transaction_datetime |-> "partner_transaction_datetime"],
     discrepant_transactions |->
        [grab_transaction_id |-> "transaction_id", grab_account_id |-> "grab_account_id",
         amount |-> "partner_amount", currency_code |-> "partner_currency_code",
         status |-> "partner_status", created_at |-> "partner_created_at",
         updated_at |-> "partner_updated_at",
         transaction_datetime |-> "partner_transaction_datetime"],
     partner_only_transactions |->
        [partner_transaction_id |-> "partner_transaction_id",
         grab_transaction_id |-> "grab_transaction_id",
         grab_account_id |-> "grab_account_id",
         transaction_datetime |-> "transaction_datetime",
         transaction_type |-> "transaction_type", amount |-> "amount",
         currency_code |-> "currency_code", status |-> "status",
         payment_method |-> "payment_method",
         created_at |-> "created_at", updated_at |-> "updated_at",
         partner_name |-> "partner_name"]]

\* Row r of a partition was produced from the loaded input row x.
DerivedFrom(r, x, columns) == \A col \in DOMAIN columns : r[columns[col]] = x[col]

\* A raw cell that is present and fails its coercion.
FailsCoercion(col, field) ==
    /\ ~read_csv_cell(field).null
    /\ IF col = "amount" THEN ~ParseNumber(field).ok
       ELSE parse_datetime(read_csv_cell(field)).null

CoercedColumns == {"amount"} \cup timestamp_columns

\* The rows of the exported partitions that stem from row i of a raw file
\* keep the null of every cell of that row that failed its coercion, and
\* there is such a row in the matched or in the "only" partition.
NullsKept(raw, loaded, columnsIn, only) ==
    /\ Len(loaded) = Len(raw)
    /\ \A i \in DOMAIN raw :
        \A col \in CoercedColumns :
          FailsCoercion(col, raw[i][col]) =>
            /\ loaded[i][col].null
            /\ \A part \in DOMAIN columnsIn :
                 \A k \in DOMAIN reconciliation_results[part] :
                   DerivedFrom(reconciliation_results[part][k], loaded[i], columnsIn[part])
                     => converted_results[part][k][columnsIn[part][col]].null
            /\ \E part \in {"reconciled_transactions", only} :
                 \E k \in DOMAIN converted_results[part] :
                   DerivedFrom(reconciliation_results[part][k], loaded[i], columnsIn[part])

\* C5: an unparseable amount or timestamp becomes null in the canonical
\* record, the record is kept, and the field is still null in every row of
\* every type-stabilized partition that stems from the record.
C5_NullsPropagate ==
    pc = "converted" =>
        /\ NullsKept(raw_files.grab_transactions, grab_transactions,
                     SourceColumnIn, "grab_only_transactions")
        /\ NullsKept(raw_files.partner_transactions, partner_transactions,
                     CounterpartColumnIn, "partner_only_transactions")
        /\ \A part \in DOMAIN reconciliation_results :
              Len(converted_results[part]) = Len(reconciliation_results[part])

\* Witness of C5: a matched row and a source-only row, each with an amount
\* and a timestamp that failed their coercion.
C5_Witness ==
    /\ pc = "converted"
    /\ \E i \in DOMAIN raw_files.grab_transactions :
          /\ FailsCoercion("amount", raw_files.grab_transactions[i].amount)
          /\ \E k \in DOMAIN matched :
                /\ DerivedFrom(matched[k], grab_transactions[i],
                               SourceColumnIn.reconciled_transactions)
                /\ converted_results.reconciled_transactions[k].grab_amount.null
                /\ converted_results.reconciled_transactions[k].grab_transaction_datetime.null
                /\ ~converted_results.reconciled_transactions[k].grab_updated_at.null
    /\ \E i \in DOMAIN raw_files.grab_transactions :
          /\ FailsCoercion("updated_at", raw_files.grab_transactions[i].updated_at)
          /\ \E k \in DOMAIN source_only :
                /\ source_only[k] = grab_transactions[i]
                /\ converted_results.grab_only_transactions[k].amount.null
    /\ \E k \in DOMAIN counterpart_only :
          converted_results.partner_only_transactions[k].amount.null

-----------------------------------------------------------------------------
(* Specification Spec: runs of clean_data_for_date and of                   *)
(* reconcile_and_export_data_for_date against the file system and the       *)
(* database, one after the other, with the failures of their reads and      *)
(* writes.  Every run has its own process and database connection.          *)

MaxRuns == 2
MaxFailures == 1

\* The raw files of two days.
RawVersions ==
    << [accounts |-> <<RawAccount1>>,
        grab_transactions |-> <<RawGrab1>>,
        partner_transactions |-> <<[RawPartner1 EXCEPT !.amount = <<"1", "0", "5", ".", "0", "0">>]>>],
       [accounts |-> <<RawAccount1, RawAccount2>>,
        grab_transactions |-> <<RawGrab1, RawGrab3>>,
        partner_transactions |-> <<RawPartner1, RawPartner3>>] >>

Terminal ==
    {"idle", "clean_completed", "clean_raised",
     "recon_completed", "recon_aborted", "recon_raised"}

OtherPeriod == CHOOSE d \in Periods : d # TARGET_DATE_STR

entity_str_columns ==
    [accounts |-> accounts_str_columns, grab_transactions |-> grab_str_columns,
     partner_transactions |-> partner_str_columns]
clean_entity(e, df) ==
    CASE e = "accounts" -> clean_accounts(df)
      [] e = "grab_transactions" -> clean_grab(df)
      [] e = "partner_transactions" -> clean_partner(df)

\* The raw files generate_data_daily.py wrote: those of the day before
\* yesterday, and those of yesterday, all of them or all but one.  When all
\* are there, yesterday's data may have been cleaned by an earlier run.
Init ==
    /\ pc = "idle"
    /\ \E missing \in {{}} \cup {{e} : e \in Entities}, cleaned_before \in BOOLEAN :
          /\ cleaned_before => missing = {}
          /\ generated = [d \in Periods |-> [e \in Entities |->
                            IF d = TARGET_DATE_STR
                            THEN (IF e \in missing THEN Absent ELSE Holding(RawVersions[1][e]))
                            ELSE Holding(RawVersions[2][e])]]
          /\ cleaned_files = [d \in Periods |-> [e \in Entities |->
                            IF d = TARGET_DATE_STR /\ cleaned_before
                            THEN Holding(to_csv(clean_entity(e, read_csv(RawVersions[1][e]))))
                            ELSE Absent]]
          /\ db = [n \in TableNames |->
                      IF cleaned_before /\ \E e \in Entities : n = cleaned_table(e, TARGET_DATE_STR)
                      THEN Holding(clean_entity(n[2], read_csv(RawVersions[1][n[2]])))
                      ELSE Absent]
    /\ export_files = [n \in ExportNames |-> Absent]
    /\ target_date_str = TARGET_DATE_STR
    /\ pos = 0
    /\ attempted = {}
    /\ run_failed = FALSE
    /\ return_value = "pending"
    /\ runs = 0
    /\ failures = 0
    /\ grab_transactions = <<>>
    /\ partner_transactions = <<>>
    /\ reconciliation_results = NoResults
    /\ ParseIdle
    /\ AutoIdle
    /\ CleanIdle

\* The outcomes of a read or write: those of S while faults are left.
Outcomes(S) == IF failures < MaxFailures THEN S ELSE {"ok"}
Fault(outcome) == failures' = IF outcome = "ok" THEN failures ELSE failures + 1

StartRun(first_pc, d) ==
    /\ pc \in Terminal
    /\ runs < MaxRuns
    /\ runs' = runs + 1
    /\ pc' = first_pc
    /\ target_date_str' = d
    /\ pos' = 0
    /\ attempted' = {}
    /\ run_failed' = FALSE
    /\ return_value' = "pending"
    /\ grab_transactions' = <<>>
    /\ partner_transactions' = <<>>
    /\ reconciliation_results' = NoResults
    /\ UNCHANGED <<generated, cleaned_files, export_files, db, failures, parseVars, autoVars, cleanVars>>

Raise(raised_pc) ==
    /\ pc' = raised_pc
    /\ run_failed' = TRUE
    /\ return_value' = "raise"

\* clean_data.py:189
call_clean_data_for_date(d) == StartRun("clean_read", d)

\* Lines 102-111: the three raw files are read; a missing one raises
\* FileNotFoundError out of the function.
clean_read_raw_files ==
    /\ pc = "clean_read"
    /\ IF \E e \in Entities : ~generated[target_date_str][e].exists
       THEN Raise("clean_raised") /\ pos' = pos
       ELSE pc' = "clean_stage" /\ pos' = 1 /\ UNCHANGED <<run_failed, return_value>>
    /\ UNCHANGED <<generated, cleaned_files, export_files, db, target_date_str, attempted,
                   runs, failures, reconVars, parseVars, autoVars, cleanVars>>

NextPos(last, next_pc) ==
    IF pos < last THEN pc' = pc /\ pos' = pos + 1 ELSE pc' = next_pc /\ pos' = 1

\* Lines 118-128, one table: DROP TABLE IF EXISTS, then to_sql(replace).
\* Either statement may raise SQLAlchemyError out of the function.
clean_stage_table ==
    /\ pc = "clean_stage"
    /\ LET e == EntityOrder[pos]
           df == read_csv(generated[target_date_str][e].rows)
       IN \E outcome \in Outcomes({"ok", "error_at_drop", "error_at_to_sql"}) :
            /\ Fault(outcome)
            /\ CASE outcome = "ok" ->
                      /\ db' = [db EXCEPT ![staging_table(e)] = Holding(df)]
                      /\ NextPos(3, "clean_section")
                      /\ UNCHANGED <<run_failed, return_value>>
                 [] outcome = "error_at_drop" ->
                      /\ Raise("clean_raised") /\ UNCHANGED <<db, pos>>
                 [] outcome = "error_at_to_sql" ->
                      /\ db' = [db EXCEPT ![staging_table(e)] = Absent]
                      /\ Raise("clean_raised") /\ UNCHANGED pos
    /\ UNCHANGED <<generated, cleaned_files, export_files, target_date_str, attempted,
                   runs, reconVars, parseVars, autoVars, cleanVars>>

\* Lines 130-168, one entity: read_sql_query of the staging table, the
\* cleaning, to_sql(replace) of the cleaned table, save_dataframe_to_csv.
\* A database error, the AttributeError of a .str accessor or an error of
\* the file write raises out of the function.
clean_entity_section ==
    /\ pc = "clean_section"
    /\ \E e \in {EntityOrder[pos]} :
       \E df \in {db[staging_table(e)].rows} :
       \E cleaned \in {clean_entity(e, df)} :
       \E outcome \in Outcomes({"ok", "db_error", "csv_error"}) :
            /\ Fault(outcome)
            /\ CASE outcome = "db_error" \/ str_accessor_raises(df, entity_str_columns[e]) ->
                      /\ Raise("clean_raised") /\ UNCHANGED <<db, cleaned_files, pos>>
                 [] outcome = "csv_error" ->
                      /\ db' = [db EXCEPT ![cleaned_table(e, target_date_str)] = Holding(cleaned)]
                      /\ Raise("clean_raised") /\ UNCHANGED <<cleaned_files, pos>>
                 [] OTHER ->
                      /\ db' = [db EXCEPT ![cleaned_table(e, target_date_str)] = Holding(cleaned)]
                      /\ cleaned_files' = [cleaned_files EXCEPT ![target_date_str][e] =
                                              Holding(to_csv(cleaned))]
                      /\ NextPos(3, "clean_drop")
                      /\ UNCHANGED <<run_failed, return_value>>
    /\ UNCHANGED <<generated, export_files, target_date_str, attempted,
                   runs, reconVars, parseVars, autoVars, cleanVars>>

\* Lines 171-173, one DROP TABLE IF EXISTS.
clean_drop_staging_table ==
    /\ pc = "clean_drop"
    /\ \E outcome \in Outcomes({"ok", "db_error"}) :
         /\ Fault(outcome)
         /\ IF outcome = "ok"
            THEN /\ db' = [db EXCEPT ![staging_table(EntityOrder[pos])] = Absent]
                 /\ IF pos < 3
                    THEN pc' = pc /\ pos' = pos + 1 /\ UNCHANGED return_value
                    ELSE pc' = "clean_completed" /\ pos' = pos /\ return_value' = "None"
                 /\ UNCHANGED run_failed
            ELSE Raise("clean_raised") /\ UNCHANGED <<db, pos>>
    /\ UNCHANGED <<generated, cleaned_files, export_files, target_date_str, attempted,
                   runs, reconVars, parseVars, autoVars, cleanVars>>

\* reconcile_data_sql.py:352
call_reconcile_and_export_data_for_date(d) == StartRun("recon_load", d)

\* Variant of the loading that goes on with an empty dataframe in the place
\* of a cleaned file that could not be loaded.
load_cleaned_data_or_empty ==
    /\ pc = "recon_load"
    /\ \E outcome \in Outcomes({"ok", "grab_unreadable", "partner_unreadable"}) :
         /\ Fault(outcome)
         /\ grab_transactions' =
               IF outcome = "grab_unreadable" THEN <<>>
               ELSE load_csv_to_dataframe(cleaned_files[target_date_str].grab_transactions.rows)
         /\ partner_transactions' =
               IF outcome = "partner_unreadable" THEN <<>>
               ELSE load_csv_to_dataframe(cleaned_files[target_date_str].partner_transactions.rows)
         /\ pc' = "loaded" /\ pos' = 1
         /\ UNCHANGED <<run_failed, return_value>>
    /\ UNCHANGED <<reconciliation_results, generated, cleaned_files, export_files, db,
                   target_date_str, attempted, runs, parseVars, autoVars, cleanVars>>

\* Lines 213-227: load_csv_to_dataframe of the two cleaned files; it returns
\* None when the file is missing or cannot be read, and then the function
\* returns.
load_cleaned_data ==
    /\ pc = "recon_load"
    /\ \E outcome \in Outcomes({"ok", "grab_unreadable", "partner_unreadable"}) :
         /\ Fault(outcome)
         /\ IF \/ outcome # "ok"
               \/ ~cleaned_files[target_date_str].grab_transactions.exists
               \/ ~cleaned_files[target_date_str].partner_transactions.exists
            THEN /\ pc' = "recon_aborted"
                 /\ run_failed' = TRUE
                 /\ return_value' = "None"
                 /\ UNCHANGED <<grab_transactions, partner_transactions, pos>>
            ELSE /\ grab_transactions' =
                       load_csv_to_dataframe(cleaned_files[target_date_str].grab_transactions.rows)
                 /\ partner_transactions' =
                       load_csv_to_dataframe(cleaned_files[target_date_str].partner_transactions.rows)
                 /\ pc' = "loaded" /\ pos' = 1
                 /\ UNCHANGED <<run_failed, return_value>>
    /\ UNCHANGED <<reconciliation_results, generated, cleaned_files, export_files, db,
                   target_date_str, attempted, runs, parseVars, autoVars, cleanVars>>

\* Line 319, for the partition the loop is at.
df_converted ==
    convert_dataframe_column_types(reconciliation_results[PartitionOrder[pos]], {})

\* Lines 154-188, called at line 330.  A psycopg2.Error of the statement is
\* caught and logged; when the connection is lost the rollback of the
\* handler raises in its turn, out of the function and of the loop.
create_reconciled_table_if_not_exists ==
    /\ pc = "reconciled"
    /\ attempted' = attempted \cup {PartitionOrder[pos]}
    /\ LET table_name == reconciled_table(PartitionOrder[pos])
       IN \E outcome \in Outcomes({"ok", "sql_error", "connection_lost"}) :
            /\ Fault(outcome)
            /\ CASE outcome = "ok" ->
                      /\ db' = [db EXCEPT ![table_name] =
                                   IF @.exists THEN @ ELSE Holding(<<>>)]
                      /\ pc' = "export_csv"
                      /\ UNCHANGED <<run_failed, return_value>>
                 [] outcome = "sql_error" ->
                      /\ pc' = "export_csv"
                      /\ run_failed' = TRUE
                      /\ UNCHANGED <<db, return_value>>
                 [] outcome = "connection_lost" ->
                      /\ Raise("recon_raised") /\ UNCHANGED db
    /\ UNCHANGED <<generated, cleaned_files, export_files, target_date_str, pos, runs,
                   reconVars, parseVars, autoVars, cleanVars>>

\* Variant of the writing of the file that writes no file for a dataframe
\* without rows.
save_dataframe_to_csv_skips_empty ==
    /\ pc = "export_csv"
    /\ \E outcome \in Outcomes({"ok", "io_error"}) :
         /\ Fault(outcome)
         /\ IF outcome = "ok"
            THEN /\ export_files' =
                       IF df_converted = <<>> THEN export_files
                       ELSE [export_files EXCEPT ![export_file(target_date_str, PartitionOrder[pos])] =
                               Holding(df_converted)]
                 /\ UNCHANGED run_failed
            ELSE /\ run_failed' = TRUE
                 /\ UNCHANGED export_files
    /\ pc' = "export_load"
    /\ UNCHANGED <<generated, cleaned_files, db, target_date_str, pos, attempted,
                   return_value, runs, reconVars, parseVars, autoVars, cleanVars>>

\* Lines 113-125, called at line 332: the file is written anew; an error of
\* the opening of the file is caught and logged.
save_dataframe_to_csv ==
    /\ pc = "export_csv"
    /\ \E outcome \in Outcomes({"ok", "io_error"}) :
         /\ Fault(outcome)
         /\ IF outcome = "ok"
            THEN /\ export_files' =
                       [export_files EXCEPT ![export_file(target_date_str, PartitionOrder[pos])] =
                           Holding(df_converted)]
                 /\ UNCHANGED run_failed
            ELSE /\ run_failed' = TRUE
                 /\ UNCHANGED export_files
    /\ pc' = "export_load"
    /\ UNCHANGED <<generated, cleaned_files, db, target_date_str, pos, attempted,
                   return_value, runs, reconVars, parseVars, autoVars, cleanVars>>

NextPartition ==
    IF pos < Len(PartitionOrder)
    THEN pc' = "reconciled" /\ pos' = pos + 1 /\ UNCHANGED return_value
    ELSE pc' = "recon_completed" /\ pos' = pos /\ return_value' = "None"

\* Lines 335-336 and 91-110: nothing is loaded from an empty dataframe;
\* otherwise copy_from adds the rows to those of the table.  A
\* psycopg2.Error (as when the table is missing) is caught and logged; a
\* lost connection raises as in the creation of the table.
load_dataframe_to_postgres ==
    /\ pc = "export_load"
    /\ LET table_name == reconciled_table(PartitionOrder[pos])
       IN IF df_converted = <<>>
          THEN NextPartition /\ UNCHANGED <<db, run_failed, failures>>
          ELSE \E outcome \in Outcomes({"ok", "sql_error", "connection_lost"}) :
                 /\ Fault(outcome)
                 /\ CASE outcome = "connection_lost" ->
                           /\ Raise("recon_raised") /\ UNCHANGED <<db, pos>>
                      [] outcome = "sql_error" \/ ~db[table_name].exists ->
                           /\ run_failed' = TRUE
                           /\ NextPartition /\ UNCHANGED db
                      [] OTHER ->
                           /\ db' = [db EXCEPT ![table_name] = Holding(@.rows \o df_converted)]
                           /\ NextPartition /\ UNCHANGED run_failed
    /\ UNCHANGED <<generated, cleaned_files, export_files, target_date_str, attempted,
                   runs, reconVars, parseVars, autoVars, cleanVars>>

Next ==
    \/ \E d \in Periods : call_clean_data_for_date(d)
    \/ clean_read_raw_files
    \/ clean_stage_table
    \/ clean_entity_section
    \/ clean_drop_staging_table
    \/ \E d \in Periods : call_reconcile_and_export_data_for_date(d)
    \/ load_cleaned_data
    \/ RunQueries
    \/ create_reconciled_table_if_not_exists
    \/ save_dataframe_to_csv
    \/ load_dataframe_to_postgres

Spec == Init /\ [][Next]_vars

-----------------------------------------------------------------------------
(* Properties of the storing of the partitions and of the failures *)

\* df_converted of a partition of the run.
converted(part) == convert_dataframe_column_types(reconciliation_results[part], {})

\* No run for the other period has had cleaned data to reconcile.
OnlyThisPeriod ==
    /\ target_date_str = TARGET_DATE_STR
    /\ \A e \in Entities : ~cleaned_files[OtherPeriod][e].exists

\* C7 (as claimed): after any sequence of reconciliation runs for one period
\* the CSV file and the database table of every partition hold exactly the
\* rows of the most recent run, rows of earlier runs are neither kept nor
\* appended to.
C7_StoreReplaces ==
    (pc = "recon_completed" /\ ~run_failed /\ OnlyThisPeriod) =>
        \A part \in Partitions :
            /\ export_files[export_file(target_date_str, part)] = Holding(converted(part))
            /\ db[reconciled_table(part)] = Holding(converted(part))

\* C8 (as claimed): whichever write of whichever partition failed, the
\* export of each of the four partitions is still attempted by a run that
\* loaded its inputs.
C8_EveryPartitionAttempted ==
    pc \in {"recon_completed", "recon_raised"} => attempted = Partitions

MissingRaw == \E e \in Entities : ~generated[target_date_str][e].exists
MissingCleaned ==
    \/ ~cleaned_files[target_date_str].grab_transactions.exists
    \/ ~cleaned_files[target_date_str].partner_transactions.exists
Outputs ==
    <<db, cleaned_files, export_files, reconciliation_results,
      grab_transactions, partner_transactions, attempted>>

\* C9: a run whose input cannot be loaded aborts at the loading: it computes
\* and writes nothing (no table, staging tables included, no CSV file), and
\* a run goes on from the loading only with all its inputs there and with
\* the dataframes read from them, never with an empty one in the place of a
\* missing or unreadable file; an aborted run does nothing more.
C9_MissingInputAborts ==
    [][ /\ pc = "recon_load" =>
              \/ pc' = "recon_aborted" /\ UNCHANGED Outputs
              \/ /\ pc' = "loaded"
                 /\ ~MissingCleaned
                 /\ grab_transactions' = load_csv_to_dataframe(
                        cleaned_files[target_date_str].grab_transactions.rows)
                 /\ partner_transactions' = load_csv_to_dataframe(
                        cleaned_files[target_date_str].partner_transactions.rows)
        /\ (pc = "recon_load" /\ MissingCleaned) => pc' = "recon_aborted"
        /\ pc = "clean_read" =>
              /\ UNCHANGED Outputs
              /\ IF MissingRaw THEN pc' = "clean_raised" ELSE pc' = "clean_stage"
        /\ pc \in {"recon_aborted", "clean_raised"} =>
              /\ pc' \in {"recon_load", "clean_read"}
              /\ UNCHANGED <<db, cleaned_files, export_files>>
      ]_vars

\* A reconciliation run aborted for its missing counterpart file, the source
\* file being there, with nothing exported.
C9_Witness ==
    /\ pc = "recon_aborted"
    /\ cleaned_files[target_date_str].grab_transactions.exists
    /\ ~cleaned_files[target_date_str].partner_transactions.exists
    /\ \A n \in ExportNames : ~export_files[n].exists
    /\ \A part \in Partitions : ~db[reconciled_table(part)].exists

\* C10 (as claimed): when an input could not be loaded or a partition not
\* written, reconcile_and_export_data_for_date does not come back to its
\* caller as a fully successful run does.
C10_FailurePropagates ==
    (pc \in {"recon_completed", "recon_aborted", "recon_raised"} /\ run_failed)
        => return_value # "None"

-----------------------------------------------------------------------------
(* Properties of the names a reconciliation run reads and writes *)

ReconPcs == {"recon_load", "loaded", "reconciled", "export_csv", "export_load"}

\* C11 (as claimed): whatever the period p of a reconciliation run, every
\* table and every CSV file the run writes has p as the suffix of its name,
\* as the cleaned files it reads have.
C11_PeriodSuffixEverywhere ==
    [][ (pc \in ReconPcs) =>
           /\ \A n \in TableNames : db'[n] # db[n] => n[3] = target_date_str
           /\ \A n \in ExportNames : export_files'[n] # export_files[n] =>
                                        n[1] = target_date_str /\ n[3] = target_date_str
      ]_vars

-----------------------------------------------------------------------------
(* Specification SpecConcurrent: clean_data_for_date(engine, p1) and       *)
(* clean_data_for_date(engine, p2), p1 # p2, run at the same time against  *)
(* one database and one file system.  Every SQL statement and every file   *)
(* write is one step.  Here pc, pos and target_date_str hold one value per *)
(* run.  No read or write fails for a reason outside the two runs.         *)

Procs == {1, 2}
ProcPeriod == <<OtherPeriod, TARGET_DATE_STR>>

InitConcurrent ==
    /\ pc = [proc \in Procs |-> "clean_read"]
    /\ pos = [proc \in Procs |-> 0]
    /\ target_date_str = [proc \in Procs |-> ProcPeriod[proc]]
    /\ generated = [d \in Periods |-> [e \in Entities |->
                       Holding(RawVersions[IF d = TARGET_DATE_STR THEN 1 ELSE 2][e])]]
    /\ cleaned_files = [d \in Periods |-> [e \in Entities |-> Absent]]
    /\ export_files = [n \in ExportNames |-> Absent]
    /\ db = [n \in TableNames |-> Absent]
    /\ attempted = {}
    /\ run_failed = FALSE
    /\ return_value = "pending"
    /\ runs = Cardinality(Procs)
    /\ failures = 0
    /\ grab_transactions = <<>>
    /\ partner_transactions = <<>>
    /\ reconciliation_results = NoResults
    /\ ParseIdle
    /\ AutoIdle
    /\ CleanIdle

concurrentUnchanged ==
    <<generated, export_files, target_date_str, attempted, return_value, runs, failures,
      reconVars, parseVars, autoVars, cleanVars>>

\* clean_data.py:102-111, by run proc.
concurrent_read_raw_files(proc) ==
    /\ pc[proc] = "clean_read"
    /\ IF \E e \in Entities : ~generated[target_date_str[proc]][e].exists
       THEN pc' = [pc EXCEPT ![proc] = "clean_raised"] /\ run_failed' = TRUE /\ pos' = pos
       ELSE /\ pc' = [pc EXCEPT ![proc] = "clean_stage"]
            /\ pos' = [pos EXCEPT ![proc] = 1]
            /\ UNCHANGED run_failed
    /\ UNCHANGED <<db, cleaned_files, concurrentUnchanged>>

\* clean_data.py:114-128, one staging table by run proc: the name of the
\* table has no period in it.
concurrent_stage_table(proc) ==
    /\ pc[proc] = "clean_stage"
    /\ \E e \in {EntityOrder[pos[proc]]} :
         db' = [db EXCEPT ![staging_table(e)] =
                   Holding(read_csv(generated[target_date_str[proc]][e].rows))]
    /\ IF pos[proc] < 3
       THEN pos' = [pos EXCEPT ![proc] = @ + 1] /\ pc' = pc
       ELSE pos' = [pos EXCEPT ![proc] = 1] /\ pc' = [pc EXCEPT ![proc] = "clean_section"]
    /\ UNCHANGED <<cleaned_files, run_failed, concurrentUnchanged>>

\* clean_data.py:130-168, one entity by run proc: read_sql_query raises when
\* the staging table is not there, the .str accessor on a numeric column.
concurrent_entity_section(proc) ==
    /\ pc[proc] = "clean_section"
    /\ \E e \in {EntityOrder[pos[proc]]} :
       \E staged \in {db[staging_table(e)]} :
         IF ~staged.exists \/ str_accessor_raises(staged.rows, entity_str_columns[e])
         THEN /\ pc' = [pc EXCEPT ![proc] = "clean_raised"]
              /\ run_failed' = TRUE
              /\ UNCHANGED <<db, cleaned_files, pos>>
         ELSE \E cleaned \in {clean_entity(e, staged.rows)} :
              /\ db' = [db EXCEPT ![cleaned_table(e, target_date_str[proc])] = Holding(cleaned)]
              /\ cleaned_files' = [cleaned_files EXCEPT ![target_date_str[proc]][e] =
                                      Holding(to_csv(cleaned))]
              /\ IF pos[proc] < 3
                 THEN pos' = [pos EXCEPT ![proc] = @ + 1] /\ pc' = pc
                 ELSE pos' = [pos EXCEPT ![proc] = 1]
                      /\ pc' = [pc EXCEPT ![proc] = "clean_drop"]
              /\ UNCHANGED run_failed
    /\ UNCHANGED concurrentUnchanged

\* clean_data.py:171-173, one DROP TABLE IF EXISTS by run proc.
concurrent_drop_staging_table(proc) ==
    /\ pc[proc] = "clean_drop"
    /\ db' = [db EXCEPT ![staging_table(EntityOrder[pos[proc]])] = Absent]
    /\ IF pos[proc] < 3
       THEN pos' = [pos EXCEPT ![proc] = @ + 1] /\ pc' = pc
       ELSE pos' = pos /\ pc' = [pc EXCEPT ![proc] = "clean_completed"]
    /\ UNCHANGED <<cleaned_files, run_failed, concurrentUnchanged>>

NextConcurrent ==
    \E proc \in Procs :
       \/ concurrent_read_raw_files(proc)
       \/ concurrent_stage_table(proc)
       \/ concurrent_entity_section(proc)
       \/ concurrent_drop_staging_table(proc)

SpecConcurrent == InitConcurrent /\ [][NextConcurrent]_vars

\* What clean_data_for_date writes for entity e of period d when it runs alone.
cleaned_alone(d, e) == clean_entity(e, read_csv(generated[d][e].rows))

\* C12 (as claimed): under every interleaving of the two runs no run fails
\* and every cleaned table and cleaned CSV file is the one the run of its
\* period writes when it runs alone.
C12_ConcurrentRunsIndependent ==
    /\ \A proc \in Procs : pc[proc] # "clean_raised"
    /\ \A d \in Periods, e \in Entities :
          /\ db[cleaned_table(e, d)].exists =>
                db[cleaned_table(e, d)].rows = cleaned_alone(d, e)
          /\ cleaned_files[d][e].exists =>
                cleaned_files[d][e].rows = to_csv(cleaned_alone(d, e))

-----------------------------------------------------------------------------
(* Specification SpecConvert: convert_dataframe_column_types applied to    *)
(* result dataframes, and applied again to what it returned.  The cells    *)
(* are those sqldf can return: numbers, text, NULL; a timestamp column     *)
(* holds text that may not be a timestamp.                                  *)

not_a_date == Str(<<"n", "o", "t", " ", "a", " ", "d", "a", "t", "e">>)
none_text == Str(<<"N", "o", "n", "e">>)

ConvertGrabRows ==
    LET g == GrabRow(T1, A1, Num(10000), PHP, success) IN
    { g,
      [g EXCEPT !.amount = NullNum, !.status = NullStr],
      [g EXCEPT !.transaction_id = NullStr, !.transaction_datetime = not_a_date],
      [g EXCEPT !.currency_code = NullStr, !.partner_name = NullStr, !.created_at = NullStr],
      [g EXCEPT !.grab_account_id = NullStr, !.updated_at = not_a_date,
                !.payment_method = NullStr],
      [g EXCEPT !.status = none_text, !.transaction_type = NullStr,
                !.updated_at = Str(FormatTimestamp(1715943600))] }

ConvertPartnerRows ==
    LET p == PartnerRow(PartnerId(1), T1, A1, Num(10500), PHP, failed) IN
    { p,
      [p EXCEPT !.amount = NullNum, !.status = NullStr],
      [p EXCEPT !.partner_transaction_id = NullStr, !.transaction_datetime = not_a_date],
      [p EXCEPT !.currency_code = NullStr, !.partner_name = NullStr, !.created_at = NullStr],
      [p EXCEPT !.grab_transaction_id = NullStr, !.grab_account_id = NullStr,
                !.updated_at = not_a_date],
      [p EXCEPT !.transaction_type = NullStr, !.payment_method = NullStr,
                !.updated_at = Str(FormatTimestamp(1715943600))] }

InitConvert ==
    /\ pc = "unconverted"
    /\ \E gt \in ConvertGrabRows, pt \in ConvertPartnerRows :
          /\ reconciliation_results =
                [reconciled_transactions |-> <<match_select(gt, pt)>>,
                 grab_only_transactions |-> <<gt>>,
                 partner_only_transactions |-> <<pt>>,
                 discrepant_transactions |-> <<discrepancy_select(gt, pt)>>]
          /\ converted_results = reconciliation_results
    /\ datetime_columns = NoDatetimeColumns
    /\ raw_files = NoFiles
    /\ cleaned_csv = NoFiles
    /\ saved = {}
    /\ grab_transactions = <<>>
    /\ partner_transactions = <<>>
    /\ ParseIdle
    /\ AutoIdle
    /\ IoIdle

\* convert_dataframe_column_types(df) for each of the four dataframes, df
\* being what sqldf returned or what the function returned before.
apply_convert_dataframe_column_types ==
    /\ pc \in {"unconverted", "converted_once"}
    /\ converted_results' =
          [part \in Partitions |->
              convert_dataframe_column_types(converted_results[part], datetime_columns[part])]
    /\ datetime_columns' =
          [part \in Partitions |->
              converted_datetime_columns(PartitionColumns[part], datetime_columns[part])]
    /\ pc' = IF pc = "unconverted" THEN "converted_once" ELSE "converted_twice"
    /\ UNCHANGED <<raw_files, cleaned_csv, saved, reconVars, parseVars, autoVars, ioVars>>

NextConvert == apply_convert_dataframe_column_types

SpecConvert == InitConvert /\ [][NextConvert]_vars

\* C13: applying convert_dataframe_column_types to what it returned changes
\* no value and no column type, null amounts, null text and text that is
\* no timestamp included.
C13_ConvertIdempotent ==
    [][ (pc = "converted_once") =>
           /\ converted_results' = converted_results
           /\ datetime_columns' = datetime_columns ]_vars

\* Witness of C13: a twice converted matched row with a null amount, the
\* text "None" of a null status and the null of a text that is no timestamp.
C13_Witness ==
    /\ pc = "converted_twice"
    /\ \E k \in DOMAIN converted_results.reconciled_transactions :
          LET m == converted_results.reconciled_transactions[k]
              m0 == reconciliation_results.reconciled_transactions[k]
          IN /\ m.grab_amount.null
             /\ m0.grab_status.null /\ m.grab_status = none_text
             /\ ~m0.partner_transaction_datetime.null
             /\ m.partner_transaction_datetime.null
             /\ ~m.grab_transaction_datetime.null

-----------------------------------------------------------------------------
(* Specification SpecEmpty: the runs of Spec, without faults, on raw files *)
(* of yesterday of which the grab file, the partner file or both hold the  *)
(* header line only.                                                        *)

InitEmpty ==
    /\ pc = "idle"
    /\ \E empty \in SUBSET {"grab_transactions", "partner_transactions"} :
          generated = [d \in Periods |-> [e \in Entities |->
                          IF d = TARGET_DATE_STR
                          THEN (IF e \in empty THEN Holding(<<>>) ELSE Holding(RawVersions[1][e]))
                          ELSE Holding(RawVersions[2][e])]]
    /\ cleaned_files = [d \in Periods |-> [e \in Entities |-> Absent]]
    /\ db = [n \in TableNames |-> Absent]
    /\ export_files = [n \in ExportNames |-> Absent]
    /\ target_date_str = TARGET_DATE_STR
    /\ pos = 0
    /\ attempted = {}
    /\ run_failed = FALSE
    /\ return_value = "pending"
    /\ runs = 0
    /\ failures = MaxFailures
    /\ grab_transactions = <<>>
    /\ partner_transactions = <<>>
    /\ reconciliation_results = NoResults
    /\ ParseIdle
    /\ AutoIdle
    /\ CleanIdle

SpecEmpty == InitEmpty /\ [][Next]_vars

\* The run is past the loading of its two cleaned files.
PastLoading ==
    pc \in {"loaded", "reconciled", "export_csv", "export_load", "recon_completed", "recon_raised"}

\* C14: a run that loaded a dataset without rows goes on to its end
\* without an error; with no partner rows the grab_only partition is the
\* grab dataset and the three others are empty, likewise with no grab rows,
\* and at the end of the run each of the four partitions has its CSV file
\* and its table.
C14_EmptyInputsDegrade ==
    (PastLoading /\ (grab_transactions = <<>> \/ partner_transactions = <<>>)) =>
        /\ ~run_failed
        /\ pc # "recon_raised"
        /\ (pc # "loaded" /\ partner_transactions = <<>>) =>
              /\ reconciliation_results.reconciled_transactions = <<>>
              /\ reconciliation_results.discrepant_transactions = <<>>
              /\ reconciliation_results.partner_only_transactions = <<>>
              /\ reconciliation_results.grab_only_transactions = grab_transactions
        /\ (pc # "loaded" /\ grab_transactions = <<>>) =>
              /\ reconciliation_results.reconciled_transactions = <<>>
              /\ reconciliation_results.discrepant_transactions = <<>>
              /\ reconciliation_results.grab_only_transactions = <<>>
              /\ reconciliation_results.partner_only_transactions = partner_transactions
        /\ pc = "recon_completed" =>
              \A part \in Partitions :
                  /\ export_files[export_file(target_date_str, part)].exists
                  /\ db[reconciled_table(part)].exists

\* Witness of C14: a completed run with grab rows and no partner rows, the
\* four files written, that of the grab_only partition with the grab rows.
C14_Witness ==
    /\ pc = "recon_completed"
    /\ grab_transactions # <<>>
    /\ partner_transactions = <<>>
    /\ reconciliation_results.grab_only_transactions = grab_transactions
    /\ \A part \in Partitions : export_files[export_file(target_date_str, part)].exists
    /\ export_files[export_file(target_date_str, "reconciled_transactions")].rows = <<>>
    /\ export_files[export_file(target_date_str, "grab_only_transactions")].rows # <<>>

-----------------------------------------------------------------------------
(* Specification SpecCurrency: the cleaning of raw files of one row each,  *)
(* the currency_code of the two transaction rows being any short text.     *)

MaxCurrencyLen == 3
CurrencyChars == {" ", "p", "H", "-", "1"}
RECURSIVE TextsUpTo(_, _)
TextsUpTo(chars, n) ==
    IF n = 0 THEN {<<>>}
    ELSE LET shorter == TextsUpTo(chars, n - 1)
         IN shorter \cup {Append(s, ch) : s \in shorter, ch \in chars}
RawCurrencies ==
    TextsUpTo(CurrencyChars, MaxCurrencyLen)
    \cup {<<" ", "p", "h", "p", " ">>, <<"P", "-", "H", "-", "P">>}

InitCurrency ==
    /\ pc = "clean_accounts"
    /\ \E raw \in RawCurrencies :
          raw_files = [accounts |-> <<RawAccount1>>,
                       grab_transactions |-> <<[RawGrab1 EXCEPT !.currency_code = raw]>>,
                       partner_transactions |-> <<[RawPartner1 EXCEPT !.currency_code = raw]>>]
    /\ cleaned_csv = NoFiles
    /\ saved = {}
    /\ converted_results = NoResults
    /\ datetime_columns = NoDatetimeColumns
    /\ grab_transactions = <<>>
    /\ partner_transactions = <<>>
    /\ reconciliation_results = NoResults
    /\ ParseIdle
    /\ AutoIdle
    /\ IoIdle

NextCurrency ==
    \/ clean_accounts_section
    \/ clean_grab_section
    \/ clean_partner_section

SpecCurrency == InitCurrency /\ [][NextCurrency]_vars

\* The letters of a text, in their order, each as its capital.
LettersOf(s) == 
    LET letters == SelectSeq(s, LAMBDA ch : ch \in Range(UpperLetters) \cup Range(LowerLetters))
    IN [k \in DOMAIN letters |-> ToUpper(letters[k])]

C15_WitnessHyphens ==
    /\ pc = "clean_done"
    /\ raw_files.partner_transactions[1].currency_code = <<"P", "-", "H", "-", "P">>
    /\ cleaned_csv.partner_transactions[1].currency_code = <<"P", "H", "P">>

-----------------------------------------------------------------------------
(* Specification SpecIdentifier: the cleaning, the loading and the queries *)
(* on raw files of one row each, the transaction id of the grab row and    *)
(* the grab_transaction_id of the partner row being spellings of one       *)
(* identifier with or without surrounding white space, or in small         *)
(* letters.                                                                 *)

RawIdentifiers ==
    { <<"T", "1">>, <<" ", "T", "1">>, <<"T", "1", " ">>, <<" ", "T", "1", " ">>,
      <<"\t", "T", "1">>, <<"t", "1">> }

InitIdentifier ==
    /\ pc = "clean_accounts"
    /\ \E tid \in RawIdentifiers, link \in RawIdentifiers :
          raw_files = [accounts |-> <<RawAccount1>>,
                       grab_transactions |-> <<[RawGrab1 EXCEPT !.transaction_id = tid]>>,
                       partner_transactions |->
                           <<[RawPartner1 EXCEPT !.grab_transaction_id = link]>>]
    /\ cleaned_csv = NoFiles
    /\ saved = {}
    /\ converted_results = NoResults
    /\ datetime_columns = NoDatetimeColumns
    /\ grab_transactions = <<>>
    /\ partner_transactions = <<>>
    /\ reconciliation_results = NoResults
    /\ ParseIdle
    /\ AutoIdle
    /\ IoIdle

NextIdentifier ==
    \/ clean_accounts_section
    \/ clean_grab_section
    \/ clean_partner_section
    \/ load_cleaned
    \/ RunQueries

SpecIdentifier == InitIdentifier /\ [][NextIdentifier]_vars

IdentifierColumns ==
    [grab_transactions |-> {"transaction_id", "grab_account_id"},
     partner_transactions |-> {"partner_transaction_id", "grab_transaction_id", "grab_account_id"}]

\* C16 (as claimed): every identifier of a cleaned transaction row is the
\* raw text without its leading and trailing white space, letter case kept;
\* so a grab row and a partner row whose raw identifiers differ by
\* surrounding white space only are joined.
C16_IdentifiersTrimmed ==
    /\ \A entity \in saved \ {"accounts"} :
          \A i \in DOMAIN raw_files[entity], col \in IdentifierColumns[entity] :
             cleaned_csv[entity][i][col] = RStrip(LStrip(raw_files[entity][i][col]))
    /\ pc = "reconciled" =>
          (RStrip(LStrip(raw_files.grab_transactions[1].transaction_id))
              = RStrip(LStrip(raw_files.partner_transactions[1].grab_transaction_id))
           => Len(reconciliation_results.reconciled_transactions) = 1)

-----------------------------------------------------------------------------
(* The columns of the matched rows *)

grab_prefix == <<"g", "r", "a", "b", "_">>
partner_prefix == <<"p", "a", "r", "t", "n", "e", "r", "_">>
StartsWith(prefix, name) ==
    Len(name) >= Len(prefix) /\ SubSeq(name, 1, Len(prefix)) = prefix

\* Column label of the result row carries column col of a row of the side
\* whose prefix is given: it is the prefix and the name of col, or the name
\* of col when that starts with the prefix already.
Labels(label, prefix, col) ==
    \/ ColumnChars[label] = prefix \o ColumnChars[col]
    \/ label = col /\ StartsWith(prefix, ColumnChars[col])

\* Row m has every column of row r of one side, under a label of that side.
CarriesAll(m, r, prefix) ==
    \A col \in DOMAIN r :
        \E label \in DOMAIN m : Labels(label, prefix, col) /\ m[label] = r[col]

\* C17 (as claimed): every matched row has every column of its grab row
\* under a grab_ label and every column of its partner row under a partner_
\* label.
C17_MatchedCarriesAllFields ==
    pc = "reconciled" =>
        \A k \in DOMAIN matched :
            \E i \in DOMAIN grab_transactions, j \in DOMAIN partner_transactions :
                /\ CarriesAll(matched[k], grab_transactions[i], grab_prefix)
                /\ CarriesAll(matched[k], partner_transactions[j], partner_prefix)

-----------------------------------------------------------------------------
(* The kinds of the columns of the four partitions *)

\* For each column of each partition, the column of the grab or partner
\* dataframe that its SELECT list takes it from.
Origin ==
    LET gt == [col \in PartitionColumns.grab_only_transactions |-> col]
        pt == [col \in PartitionColumns.partner_only_transactions |-> col]
    IN [reconciled_transactions |-> match_select(gt, pt),
        grab_only_transactions |-> gt,
        partner_only_transactions |-> pt,
        discrepant_transactions |-> discrepancy_select(gt, pt)]

\* The kind of a column of the cleaned files: the amount, an instant, or
\* text (identifiers, status, currency, name, type, method).
KindOf(col) ==
    IF col = "amount" THEN "numeric"
    ELSE IF col \in timestamp_columns THEN "datetime"
    ELSE "str"

\* C18: after convert_dataframe_column_types, in every partition, a column
\* taken from an amount holds the numbers and nulls it held, a column taken
\* from an identifier, status, currency, name, type or method holds text in
\* every row, and a column taken from a timestamp, and no other, has the
\* UTC datetime dtype, holding the instant that the text spelled or null.
C18_ColumnKinds ==
    pc \in {"converted_once", "converted_twice"} =>
        \A part \in Partitions : \A col \in PartitionColumns[part] :
            LET kind == KindOf(Origin[part][col]) IN
            /\ (col \in datetime_columns[part]) <=> (kind = "datetime")
            /\ \A k \in DOMAIN converted_results[part] :
                  LET before == reconciliation_results[part][k][col]
                      after == converted_results[part][k][col]
                  IN /\ kind = "numeric" => after = before
                     /\ kind = "str" =>
                           /\ ~after.null
                           /\ after = (IF before.null THEN none_text ELSE before)
                     /\ kind = "datetime" =>
                           \/ after.null
                           \/ ~before.null /\ FormatTimestamp(after.v) = before.v

\* Witness of C18: a converted partner_only row without account id, with
\* a null amount kept, and with one timestamp converted and one not.
C18_Witness ==
    /\ pc = "converted_once"
    /\ \E k \in DOMAIN converted_results.partner_only_transactions :
          LET r == converted_results.partner_only_transactions[k]
              r0 == reconciliation_results.partner_only_transactions[k]
          IN /\ r0.grab_account_id.null /\ r.grab_account_id = none_text
             /\ ~r.created_at.null
             /\ ~r0.updated_at.null /\ r.updated_at.null
    /\ \E k \in DOMAIN converted_results.discrepant_transactions :
          converted_results.discrepant_transactions[k].grab_amount.null
    /\ datetime_columns.partner_only_transactions = timestamp_columns

-----------------------------------------------------------------------------
(* Formatting of status and currency and the discrepancies *)

\* A text without its surrounding white space, in small letters.
Fold(s) == LET t == RStrip(LStrip(s)) IN [k \in DOMAIN t |-> ToLower(t[k])]

\* Raw grab row g and raw partner row p have the same key, the same amount,
\* and status and currency that differ in letter case and surrounding white
\* space at most.
SameButFormat(g, p) ==
    /\ g.transaction_id = p.grab_transaction_id /\ g.transaction_id \notin na_values
    /\ g.grab_account_id = p.grab_account_id /\ g.grab_account_id \notin na_values
    /\ ParseNumber(g.amount).ok /\ ParseNumber(p.amount).ok
    /\ ParseNumber(g.amount).v = ParseNumber(p.amount).v
    /\ Fold(g.status) = Fold(p.status)
    /\ Fold(g.currency_code) = Fold(p.currency_code)

\* C19: a raw grab row and a raw partner row of the same key and amount
\* whose status and currency differ in letter case and surrounding white
\* space only give, after the cleaning and the queries, a matched row and no
\* discrepant row.
C19_FormattingIsNoDiscrepancy ==
    pc \in {"reconciled", "converted"} =>
        \A i \in DOMAIN raw_files.grab_transactions,
           j \in DOMAIN raw_files.partner_transactions :
            SameButFormat(raw_files.grab_transactions[i], raw_files.partner_transactions[j]) =>
                /\ match_select(grab_transactions[i], partner_transactions[j]) \in Range(matched)
                /\ discrepancy_select(grab_transactions[i], partner_transactions[j])
                      \notin Range(discrepant)

\* Witness of C19: such a pair whose raw status, currency and amount are
\* spelled differently, matched, no row being discrepant.
C19_Witness ==
    /\ pc = "reconciled"
    /\ \E i \in DOMAIN raw_files.grab_transactions,
          j \in DOMAIN raw_files.partner_transactions :
          LET g == raw_files.grab_transactions[i]
              p == raw_files.partner_transactions[j]
          IN /\ SameButFormat(g, p)
             /\ g.status # p.status /\ g.currency_code # p.currency_code
             /\ g.amount # p.amount
             /\ match_select(grab_transactions[i], partner_transactions[j]) \in Range(matched)
    /\ Len(matched) = 2
    /\ discrepant = <<>>

-----------------------------------------------------------------------------
(* Rows whose key has a null component *)

NullKey(tid, acct) == tid.null \/ acct.null

\* C20: no matched row and no discrepant row has a null in a key column,
\* and every grab row (partner row) with a null transaction id or a null
\* account id is in grab_only (partner_only), as often as in its dataset,
\* whatever the rows of the other dataset.
C20_NullKeysNeverJoin ==
    pc = "reconciled" =>
        /\ \A k \in DOMAIN matched :
              /\ ~NullKey(matched[k].grab_transaction_id, matched[k].grab_account_id)
              /\ ~NullKey(matched[k].partner_grab_transaction_id,
                          matched[k].partner_grab_account_id)
        /\ \A k \in DOMAIN discrepant :
              ~NullKey(discrepant[k].transaction_id, discrepant[k].grab_account_id)
        /\ \A i \in DOMAIN grab_transactions :
              LET g == grab_transactions[i] IN
              NullKey(g.transaction_id, g.grab_account_id) =>
                  Count(source_only, g) = Count(grab_transactions, g)
        /\ \A j \in DOMAIN partner_transactions :
              LET p == partner_transactions[j] IN
              NullKey(p.grab_transaction_id, p.grab_account_id) =>
                  Count(counterpart_only, p) = Count(partner_transactions, p)

\* Witness of C20: a grab row and a partner row with the same account id,
\* both without transaction id, each in its only-partition, next to a pair
\* that is matched.
C20_Witness ==
    /\ pc = "reconciled"
    /\ Len(matched) = 1
    /\ \E i \in DOMAIN grab_transactions, j \in DOMAIN partner_transactions :
          LET g == grab_transactions[i]
              p == partner_transactions[j]
          IN /\ g.transaction_id.null /\ p.grab_transaction_id.null
             /\ ~g.grab_account_id.null /\ g.grab_account_id = p.grab_account_id
             /\ g \in Range(source_only)
             /\ p \in Range(counterpart_only)

\* The same with the account id: both rows without it, same transaction id.
C20_WitnessAccount ==
    /\ pc = "reconciled"
    /\ \E i \in DOMAIN grab_transactions, j \in DOMAIN partner_transactions :
          LET g == grab_transactions[i]
              p == partner_transactions[j]
          IN /\ g.grab_account_id.null /\ p.grab_account_id.null
             /\ ~g.transaction_id.null /\ g.transaction_id = p.grab_transaction_id
             /\ g \in Range(source_only)
             /\ p \in Range(counterpart_only)

-----------------------------------------------------------------------------
(* Specification SpecAutomation: run_automation.py with schedule frequency *)
(* 'daily'.  The time of day is known as before, at or after the minute of *)
(* the schedule.  A script process ends in one of the ways its __main__    *)
(* block allows, and its return code is the one that block gives.          *)

MaxDays == 2

\* config["scripts"]: the three stages of the pipeline, in their order.
Scripts == <<"generate_data_daily", "clean_data", "reconcile_data_sql">>

\* The ways a script process can end.
ScriptOutcomes ==
    [generate_data_daily |-> {"completed", "cannot_connect", "file_error"},
     clean_data |-> {"completed", "input_missing", "cannot_connect", "db_error",
                     "attribute_error"},
     reconcile_data_sql |-> {"completed", "input_missing", "cannot_connect", "db_error",
                             "connection_lost"}]

\* process.returncode: 1 when an exception leaves the script, 0 otherwise.
\* generate_data_daily.py calls exit() when it cannot connect; clean_data.py
\* catches SQLAlchemyError (a failed connection included) in __main__ and
\* nothing else; reconcile_data_sql.py logs a missing connection, returns
\* from the function on a missing input and logs the psycopg2.Error of a
\* statement, and only the error of a lost connection leaves it.
returncode(script, outcome) ==
    CASE script = "generate_data_daily" -> IF outcome = "file_error" THEN 1 ELSE 0
      [] script = "clean_data" ->
            IF outcome \in {"input_missing", "attribute_error"} THEN 1 ELSE 0
      [] script = "reconcile_data_sql" -> IF outcome = "connection_lost" THEN 1 ELSE 0

Today == [year |-> now.year, month |-> now.month, day |-> now.day]

NextDay(t) ==
    IF t.day < DaysInMonth(t.year, t.month) THEN [t EXCEPT !.day = @ + 1]
    ELSE IF t.month < 12 THEN [t EXCEPT !.month = @ + 1, !.day = 1]
    ELSE [t EXCEPT !.year = @ + 1, !.month = 1, !.day = 1]

\* The clock one phase later.
Tick(t) ==
    CASE t.clock = "before" -> [t EXCEPT !.clock = "at"]
      [] t.clock = "at" -> [t EXCEPT !.clock = "after"]
      [] t.clock = "after" -> [NextDay(t) EXCEPT !.clock = "before"]

\* Time goes by, to one of the instants of later.
TimePasses(later) ==
    \E t \in later :
        /\ now' = t
        /\ days_elapsed' =
              IF t.day = now.day /\ t.month = now.month THEN days_elapsed ELSE days_elapsed + 1
        /\ days_elapsed' <= MaxDays

StartDates ==
    { [year |-> 2024, month |-> 5, day |-> 17], [year |-> 2024, month |-> 2, day |-> 27],
      [year |-> 2023, month |-> 2, day |-> 27], [year |-> 2023, month |-> 12, day |-> 30] }

InitAutomation ==
    /\ pc = "polling"
    /\ \E d \in StartDates, c \in {"before", "at", "after"} :
          now = [year |-> d.year, month |-> d.month, day |-> d.day, clock |-> c]
    /\ success_flag = TRUE
    /\ script_index = 0
    /\ started = <<>>
    /\ finished = <<>>
    /\ notified = {}
    /\ run_dates = <<>>
    /\ days_elapsed = 0
    /\ grab_transactions = <<>>
    /\ partner_transactions = <<>>
    /\ reconciliation_results = NoResults
    /\ ParseIdle
    /\ CleanIdle
    /\ IoIdle

automationUnchanged == <<reconVars, parseVars, cleanVars, ioVars>>

\* Lines 100-104 and 124-125: at the minute of the schedule a run starts;
\* otherwise time.sleep(60), which ends a minute later or more.
poll ==
    /\ pc = "polling"
    /\ IF now.clock = "at"
       THEN /\ pc' = "run_loop"
            /\ success_flag' = TRUE
            /\ script_index' = 1
            /\ started' = <<>>
            /\ finished' = <<>>
            /\ notified' = {}
            /\ run_dates' = Append(run_dates, Today)
            /\ UNCHANGED <<now, days_elapsed>>
       ELSE /\ TimePasses({now, Tick(now), Tick(Tick(now))})
            /\ UNCHANGED <<pc, success_flag, script_index, started, finished, notified,
                           run_dates>>
    /\ UNCHANGED automationUnchanged

\* Lines 105-107 and 60-72: run_script of the next script.  Without the
\* file of the script it returns False; an exception of subprocess.Popen is
\* caught, send_failure_email is called and it returns False.
run_script ==
    /\ pc = "run_loop"
    /\ success_flag
    /\ script_index <= Len(Scripts)
    /\ \E launch \in {"no_path", "popen_raises", "started"} :
          CASE launch = "no_path" ->
                  /\ success_flag' = FALSE
                  /\ script_index' = script_index + 1
                  /\ UNCHANGED <<pc, started, notified>>
            [] launch = "popen_raises" ->
                  /\ notified' = notified \cup {Scripts[script_index]}
                  /\ success_flag' = FALSE
                  /\ script_index' = script_index + 1
                  /\ UNCHANGED <<pc, started>>
            [] launch = "started" ->
                  /\ started' = Append(started, script_index)
                  /\ pc' = "script_running"
                  /\ UNCHANGED <<success_flag, script_index, notified>>
    /\ UNCHANGED <<now, finished, run_dates, days_elapsed, automationUnchanged>>

\* Variant of the end of a script process that goes on whatever the return
\* code.
script_process_ends_any_returncode ==
    /\ pc = "script_running"
    /\ \E outcome \in ScriptOutcomes[Scripts[script_index]] :
          /\ finished' = Append(finished,
                [script |-> Scripts[script_index], outcome |-> outcome,
                 returncode |-> returncode(Scripts[script_index], outcome)])
          /\ pc' = "delay"
          /\ UNCHANGED <<success_flag, script_index, notified>>
    /\ TimePasses({now, Tick(now)})
    /\ UNCHANGED <<started, run_dates, automationUnchanged>>

\* Lines 73-84 and 107-113: process.communicate() returns when the process
\* has ended; return code 0 makes run_script return True, any other one
\* makes it call send_failure_email and return False.
script_process_ends ==
    /\ pc = "script_running"
    /\ \E outcome \in ScriptOutcomes[Scripts[script_index]] :
          LET code == returncode(Scripts[script_index], outcome) IN
          /\ finished' = Append(finished,
                [script |-> Scripts[script_index], outcome |-> outcome, returncode |-> code])
          /\ IF code = 0
             THEN /\ pc' = "delay"
                  /\ UNCHANGED <<success_flag, script_index, notified>>
             ELSE /\ notified' = notified \cup {Scripts[script_index]}
                  /\ success_flag' = FALSE
                  /\ script_index' = script_index + 1
                  /\ pc' = "run_loop"
    /\ TimePasses({now, Tick(now)})
    /\ UNCHANGED <<started, run_dates, automationUnchanged>>

\* Lines 108-110: time.sleep(delay_after), then the next script.
delay_after ==
    /\ pc = "delay"
    /\ script_index' = script_index + 1
    /\ pc' = "run_loop"
    /\ TimePasses({now, Tick(now)})
    /\ UNCHANGED <<success_flag, started, finished, notified, run_dates, automationUnchanged>>

\* Lines 105 and 114-117: the loop ends after the last script, or at the
\* first turn after a failure.
finish_run ==
    /\ pc = "run_loop"
    /\ ~success_flag \/ script_index > Len(Scripts)
    /\ pc' = "run_finished"
    /\ UNCHANGED <<autoVars, automationUnchanged>>

\* Lines 119-122: datetime(now.year, now.month, now.day + 1, ...) raises
\* ValueError when the month has no such day; nothing catches it.
wait_for_next_day ==
    /\ pc = "run_finished"
    /\ pc' = IF now.day + 1 <= DaysInMonth(now.year, now.month) THEN "sleeping" ELSE "crashed"
    /\ UNCHANGED <<autoVars, automationUnchanged>>

\* Line 123: time.sleep(wait_seconds) ends at the minute of the schedule of
\* the day after the one the run ended on.
wake_up ==
    /\ pc = "sleeping"
    /\ pc' = "polling"
    /\ TimePasses({[now EXCEPT !.day = @ + 1, !.clock = "at"]})
    /\ UNCHANGED <<success_flag, script_index, started, finished, notified, run_dates,
                   automationUnchanged>>

NextAutomation ==
    \/ poll
    \/ run_script
    \/ script_process_ends
    \/ delay_after
    \/ finish_run
    \/ wait_for_next_day
    \/ wake_up

SpecAutomation == InitAutomation /\ [][NextAutomation]_vars

RunPcs == {"run_loop", "script_running", "delay", "run_finished"}

\* The scripts started so far in the run are the first ones of the
\* configuration, in its order; all that were started have ended, but the
\* last one while it runs; all but the last one ended with return code 0.
StartedInOrder ==
    /\ \A i \in DOMAIN started : started[i] = i
    /\ Len(finished) = IF pc = "script_running" THEN Len(started) - 1 ELSE Len(started)
    /\ \A i \in DOMAIN finished :
          /\ finished[i].script = Scripts[started[i]]
          /\ i < Len(started) => finished[i].returncode = 0

\* C21: in a run the scripts are started in the order of the configuration,
\* one at a time, each after the one before it ended with return code 0 and
\* its delay is over; after a failure (no file, exception of the launch,
\* return code other than 0) the run starts no script any more.
C21_ScriptsInOrderUntilFailure ==
    /\ []StartedInOrder
    /\ [][ (pc \in RunPcs) =>
             /\ (started' # started) =>
                   /\ pc = "run_loop" /\ success_flag
                   /\ started' = Append(started, Len(started) + 1)
             /\ (pc = "script_running") => (pc' \in {"delay", "run_loop"})
             /\ ~success_flag => (started' = started /\ ~success_flag')
             /\ (pc = "script_running" /\ finished'[Len(finished')].returncode # 0) =>
                   ~success_flag'
       ]_vars

\* Witness of C21: a finished run whose first script ended with return code
\* 0 and whose second script failed; the third was not started.
C21_Witness ==
    /\ pc = "run_finished"
    /\ ~success_flag
    /\ started = <<1, 2>>
    /\ Len(finished) = 2
    /\ finished[1].returncode = 0
    /\ finished[2].returncode # 0
    /\ notified = {Scripts[2]}

\* No date has two runs.
OneRunPerDay ==
    \A i, j \in DOMAIN run_dates : run_dates[i] = run_dates[j] => i = j

\* C22 (as claimed): after every run, on every date, the scheduler goes to
\* sleep until the minute of the schedule of the following day, and then
\* starts a run; no day has two runs.
C22_SchedulerKeepsRunning ==
    /\ []OneRunPerDay
    /\ [][ /\ (pc = "run_finished") => (pc' = "sleeping")
           /\ (pc = "sleeping") =>
                 (pc' = "polling" /\ now' = [NextDay(now) EXCEPT !.clock = "at"])
           /\ (pc = "polling" /\ now.clock = "at") =>
                 (pc' = "run_loop" /\ run_dates' = Append(run_dates, Today))
       ]_vars

\* The ways of ending that are failures of a stage: an input that cannot be
\* loaded, no connection to the database, an error of the database.
StageFailures == {"input_missing", "cannot_connect", "db_error", "connection_lost"}

\* C23 (as claimed): whenever the process of clean_data.py or of
\* reconcile_data_sql.py ended on such a failure, its return code is not 0,
\* run_script returned False, send_failure_email was called for it, and no
\* later script of the run was started.
C23_StageFailureStopsRun ==
    \A i \in DOMAIN finished :
        (finished[i].script \in {"clean_data", "reconcile_data_sql"}
            /\ finished[i].outcome \in StageFailures) =>
                /\ finished[i].returncode # 0
                /\ ~success_flag
                /\ finished[i].script \in notified
                /\ Len(started) = i

====
